---- MODULE Spec2Model ----
(***************************************************************************)
(* NetCAT backup / deploy / upgrade: a model of the CLI session            *)
(* (netcat_cli.py and the vendor adapters), of the change detector and     *)
(* the storage adapters, and of the job drivers with their worker pool.    *)
(*                                                                         *)
(* Strings the code slices or tests by prefix (table names, format names,  *)
(* device types) are sequences of one-character strings, so that           *)
(* str.startswith and str[7:] are computed.  Other strings are atoms.      *)
(***************************************************************************)
EXTENDS Integers, Sequences, FiniteSets, TLC

\* ------------------------------------------------------------------------
\* Strings
\* ------------------------------------------------------------------------

\* str.startswith(prefix)
StartsWith(s, prefix) ==
  /\ Len(s) >= Len(prefix)
  /\ SubSeq(s, 1, Len(prefix)) = prefix

\* s[n:] for 0 <= n
SliceFrom(s, n) == SubSeq(s, n + 1, Len(s))

\* src/netcat.py:46-48
DBT_INFO == <<"n","e","t","c","a","t","_","i","n","f","o">>
DBT_BACKUP == <<"n","e","t","c","a","t","_","b","a","c","k","u","p">>
DBT_STATUS == <<"n","e","t","c","a","t","_","s","t","a","t","u","s">>

\* the device types of src/netcat.py:33
T_paloalto == <<"p","a","l","o","a","l","t","o">>
T_f5 == <<"f","5">>
T_cisco_nexus == <<"c","i","s","c","o","_","n","e","x","u","s">>
T_cisco_router == <<"c","i","s","c","o","_","r","o","u","t","e","r">>
T_cisco_switch == <<"c","i","s","c","o","_","s","w","i","t","c","h">>
T_cisco_asa == <<"c","i","s","c","o","_","a","s","a">>
T_cisco_asa_mc == <<"c","i","s","c","o","_","a","s","a","_","m","c">>

SUPPORTED_DEVICE_TYPES ==
  {T_paloalto, T_f5, T_cisco_nexus, T_cisco_router, T_cisco_switch, T_cisco_asa, T_cisco_asa_mc}

\* device types an inventory file can carry and no adapter knows
T_juniper == <<"j","u","n","i","p","e","r">>
T_cisco_wlc == <<"c","i","s","c","o","_","w","l","c">>

\* ------------------------------------------------------------------------
\* Command catalogs of the vendor adapters
\* ------------------------------------------------------------------------

\* src/netcat_cli_pa.py:20-61
OUTPUT_FORMATS_PALOALTO ==
  <<
  [format_name |-> <<"b","a","c","k","u","p","_","s","e","t">>,
   output_start |-> 1, output_end |-> -2,
   pre_commands |-> <<"set cli config-output-format set", "configure">>,
   commands |-> <<"show">>,
   post_commands |-> <<"exit">>],
  [format_name |-> <<"b","a","c","k","u","p","_","x","m","l">>,
   output_start |-> 1, output_end |-> -2,
   pre_commands |-> <<"set cli config-output-format xml", "configure">>,
   commands |-> <<"show">>,
   post_commands |-> <<"exit">>],
  [format_name |-> <<"b","a","c","k","u","p","_","r","u","n","n","i","n","g">>,
   output_start |-> 2, output_end |-> -2,
   pre_commands |-> <<>>,
   commands |-> <<"show config running">>,
   post_commands |-> <<>>],
  [format_name |-> <<"i","n","f","o">>,
   output_start |-> 2, output_end |-> -2,
   pre_commands |-> <<>>,
   commands |-> <<"show clock", "show system info", "show high-availability all", "show routing protocol bgp summary", "show interface all", "show arp all", "show dhcp server lease interface all">>,
   post_commands |-> <<>>]
  >>

\* src/netcat_cli_cisco.py:19-50
OUTPUT_FORMATS_CISCO_NEXUS ==
  <<
  [format_name |-> <<"b","a","c","k","u","p","_","r","u","n","n","i","n","g">>,
   output_start |-> 4, output_end |-> -1,
   pre_commands |-> <<>>,
   commands |-> <<"show running-config">>,
   post_commands |-> <<>>],
  [format_name |-> <<"b","a","c","k","u","p","_","s","t","a","r","t","u","p">>,
   output_start |-> 4, output_end |-> -1,
   pre_commands |-> <<>>,
   commands |-> <<"show startup-config">>,
   post_commands |-> <<>>],
  [format_name |-> <<"i","n","f","o">>,
   output_start |-> 1, output_end |-> -1,
   pre_commands |-> <<>>,
   commands |-> <<"show clock", "show version", "show processes cpu history", "show mac address-table", "show interface status">>,
   post_commands |-> <<>>]
  >>

\* src/netcat_cli_cisco.py:52-90
OUTPUT_FORMATS_CISCO_ROUTER ==
  <<
  [format_name |-> <<"b","a","c","k","u","p","_","r","u","n","n","i","n","g">>,
   output_start |-> 4, output_end |-> -1,
   pre_commands |-> <<>>,
   commands |-> <<"show running-config">>,
   post_commands |-> <<>>],
  [format_name |-> <<"b","a","c","k","u","p","_","s","t","a","r","t","u","p">>,
   output_start |-> 4, output_end |-> -1,
   pre_commands |-> <<>>,
   commands |-> <<"show startup-config">>,
   post_commands |-> <<>>],
  [format_name |-> <<"i","n","f","o">>,
   output_start |-> 1, output_end |-> -1,
   pre_commands |-> <<>>,
   commands |-> <<"show clock", "show version", "show processes cpu history", "show ip bgp summary", "show ip interface brief", "show ip arp", "show ip dhcp binding", "show vrf brief", "show crypto isakmp sa detail", "show crypto ikev2 sa detail", "show crypto session detail", "show crypto ipsec sa">>,
   post_commands |-> <<>>]
  >>

\* src/netcat_cli_cisco.py:92-124
OUTPUT_FORMATS_CISCO_SWITCH ==
  <<
  [format_name |-> <<"b","a","c","k","u","p","_","r","u","n","n","i","n","g">>,
   output_start |-> 4, output_end |-> -1,
   pre_commands |-> <<>>,
   commands |-> <<"show running-config">>,
   post_commands |-> <<>>],
  [format_name |-> <<"b","a","c","k","u","p","_","s","t","a","r","t","u","p">>,
   output_start |-> 4, output_end |-> -1,
   pre_commands |-> <<>>,
   commands |-> <<"show startup-config">>,
   post_commands |-> <<>>],
  [format_name |-> <<"i","n","f","o">>,
   output_start |-> 1, output_end |-> -1,
   pre_commands |-> <<>>,
   commands |-> <<"show clock", "show version", "show processes cpu history", "show mac address-table", "show interfaces status", "show ip dhcp snooping binding">>,
   post_commands |-> <<>>]
  >>

\* src/netcat_cli_cisco.py:126-154
OUTPUT_FORMATS_CISCO_ASA ==
  <<
  [format_name |-> <<"b","a","c","k","u","p","_","r","u","n","n","i","n","g">>,
   output_start |-> 4, output_end |-> -1,
   pre_commands |-> <<>>,
   commands |-> <<"show running-config">>,
   post_commands |-> <<>>],
  [format_name |-> <<"b","a","c","k","u","p","_","s","t","a","r","t","u","p">>,
   output_start |-> 4, output_end |-> -1,
   pre_commands |-> <<>>,
   commands |-> <<"show startup-config">>,
   post_commands |-> <<>>],
  [format_name |-> <<"i","n","f","o">>,
   output_start |-> 1, output_end |-> -1,
   pre_commands |-> <<>>,
   commands |-> <<"show clock", "show version">>,
   post_commands |-> <<>>]
  >>

\* src/netcat_cli_cisco.py:156-238
OUTPUT_FORMATS_CISCO_ASA_MC ==
  <<
  [format_name |-> <<"b","a","c","k","u","p","_","r","u","n","n","i","n","g">>,
   output_start |-> 4, output_end |-> -1,
   pre_commands |-> <<"changeto system">>,
   commands |-> <<"show running-config">>,
   post_commands |-> <<>>],
  [format_name |-> <<"b","a","c","k","u","p","_","s","t","a","r","t","u","p">>,
   output_start |-> 4, output_end |-> -1,
   pre_commands |-> <<"changeto system">>,
   commands |-> <<"show startup-config">>,
   post_commands |-> <<>>],
  [format_name |-> <<"i","n","f","o">>,
   output_start |-> 1, output_end |-> -1,
   pre_commands |-> <<"changeto system">>,
   commands |-> <<"show clock", "show version">>,
   post_commands |-> <<>>],
  [format_name |-> <<"b","a","c","k","u","p","_","a","d","m","i","n","_","r","u","n","n","i","n","g">>,
   output_start |-> 4, output_end |-> -1,
   pre_commands |-> <<"changeto context ADMIN">>,
   commands |-> <<"show running-config">>,
   post_commands |-> <<>>],
  [format_name |-> <<"b","a","c","k","u","p","_","a","d","m","i","n","_","s","t","a","r","t","u","p">>,
   output_start |-> 4, output_end |-> -1,
   pre_commands |-> <<"changeto context ADMIN">>,
   commands |-> <<"show startup-config">>,
   post_commands |-> <<>>],
  [format_name |-> <<"i","n","f","o","_","a","d","m","i","n">>,
   output_start |-> 1, output_end |-> -1,
   pre_commands |-> <<"changeto context ADMIN">>,
   commands |-> <<"show clock", "show version">>,
   post_commands |-> <<>>],
  [format_name |-> <<"b","a","c","k","u","p","_","v","f","i","_","r","u","n","n","i","n","g">>,
   output_start |-> 4, output_end |-> -1,
   pre_commands |-> <<"changeto context VFI">>,
   commands |-> <<"show running-config">>,
   post_commands |-> <<>>],
  [format_name |-> <<"b","a","c","k","u","p","_","v","f","i","_","s","t","a","r","t","u","p">>,
   output_start |-> 4, output_end |-> -1,
   pre_commands |-> <<"changeto context VFI">>,
   commands |-> <<"show startup-config">>,
   post_commands |-> <<>>],
  [format_name |-> <<"i","n","f","o","_","v","f","i">>,
   output_start |-> 1, output_end |-> -1,
   pre_commands |-> <<"changeto context VFI">>,
   commands |-> <<"show clock", "show version">>,
   post_commands |-> <<>>]
  >>

\* src/netcat_cli_f5.py:17-38
OUTPUT_FORMATS_F5 ==
  <<
  [format_name |-> <<"b","a","c","k","u","p">>,
   output_start |-> 2, output_end |-> -1,
   pre_commands |-> <<>>,
   commands |-> <<"list">>,
   post_commands |-> <<>>],
  [format_name |-> <<"i","n","f","o">>,
   output_start |-> 4, output_end |-> -2,
   pre_commands |-> <<>>,
   commands |-> <<"show sys clock", "show sys version", "show sys hardware">>,
   post_commands |-> <<>>]
  >>

\* ------------------------------------------------------------------------
\* Command outputs: a text is a sequence of words and "\n"; a line is the
\* sequence of words between two "\n"
\* ------------------------------------------------------------------------

NL == "\n"

\* str.split("\n")
RECURSIVE SplitLines(_, _, _)
SplitLines(text, i, line) ==
  IF i > Len(text) THEN <<line>>
  ELSE IF text[i] = NL THEN <<line>> \o SplitLines(text, i + 1, <<>>)
  ELSE SplitLines(text, i + 1, Append(line, text[i]))

Split(text) == SplitLines(text, 1, <<>>)

\* str.find(fragment) >= 0
Find(line, fragment) ==
  \E k \in 0..(Len(line) - Len(fragment)) : SubSeq(line, k + 1, k + Len(fragment)) = fragment

\* netcat_backup.compare_command_outputs: the exclusions
exclusions ==
  { <<"!Time:">>, <<"no", "ip", "domain-lookup">>, <<"state", "up">>, <<"state", "down">> }

\* a comparison that ignores no difference
compare_command_outputs_strict(output_a, output_b) == Split(output_a) = Split(output_b)

\* netcat_backup.compare_command_outputs: TRUE when the outputs are the same
compare_command_outputs(output_a, output_b) ==
  LET output_a_lines == Split(output_a)
      output_b_lines == Split(output_b)
  IN IF Len(output_a_lines) # Len(output_b_lines) THEN FALSE
     ELSE \A i \in 1..Len(output_a_lines) :
            output_a_lines[i] # output_b_lines[i]
              => \E exclusion \in exclusions :
                   Find(output_a_lines[i], exclusion) \/ Find(output_b_lines[i], exclusion)

\* dict.get(key, default)
Get(m, k, default) == IF k \in DOMAIN m THEN m[k] ELSE default

\* ------------------------------------------------------------------------
\* Artifact codec (netcat.encode_command / decode_command,
\* netcat.compress_device_data / decompress_device_data)
\*
\* A str is the sequence of its code points, a bytes object the sequence of
\* its bytes, and the text of a storage key a sequence of characters.
\* ------------------------------------------------------------------------

\* str.encode("utf-8") of one code point (no surrogate)
utf8_bytes(cp) ==
  IF cp < 128 THEN <<cp>>
  ELSE IF cp < 2048 THEN <<192 + (cp \div 64), 128 + (cp % 64)>>
  ELSE IF cp < 65536 THEN <<224 + (cp \div 4096), 128 + ((cp \div 64) % 64), 128 + (cp % 64)>>
  ELSE <<240 + (cp \div 262144), 128 + ((cp \div 4096) % 64), 128 + ((cp \div 64) % 64), 128 + (cp % 64)>>

\* str.encode("utf-8") / bytes(s, "utf-8")
RECURSIVE utf8_encode(_)
utf8_encode(s) == IF s = <<>> THEN <<>> ELSE utf8_bytes(Head(s)) \o utf8_encode(Tail(s))

\* the number of bytes the UTF-8 sequence that starts with byte b has (0: none starts with it)
utf8_width(b) ==
  IF b < 128 THEN 1 ELSE IF b < 192 THEN 0 ELSE IF b < 224 THEN 2 ELSE IF b < 240 THEN 3 ELSE IF b < 248 THEN 4 ELSE 0

\* str(b, "utf-8"); <<-1>> stands for UnicodeDecodeError
RECURSIVE utf8_decode(_)
utf8_decode(b) ==
  IF b = <<>> THEN <<>>
  ELSE LET w == utf8_width(b[1]) IN
       IF w = 0 \/ Len(b) < w \/ \E k \in 2..w : b[k] < 128 \/ b[k] >= 192 THEN <<-1>>
       ELSE LET cp == CASE w = 1 -> b[1]
                        [] w = 2 -> (b[1] - 192) * 64 + (b[2] - 128)
                        [] w = 3 -> (b[1] - 224) * 4096 + (b[2] - 128) * 64 + (b[3] - 128)
                        [] OTHER -> (b[1] - 240) * 262144 + (b[2] - 128) * 4096 + (b[3] - 128) * 64 + (b[4] - 128)
                rest == utf8_decode(SubSeq(b, w + 1, Len(b)))
            IN IF rest = <<-1>> THEN rest ELSE <<cp>> \o rest

\* bytes.decode("latin-1"): every byte is the code point of a character
latin1_decode(b) == b

HEX_DIGITS == <<"0","1","2","3","4","5","6","7","8","9","a","b","c","d","e","f">>

\* binascii.hexlify(b).decode("utf-8")
RECURSIVE hexlify(_)
hexlify(b) ==
  IF b = <<>> THEN <<>>
  ELSE <<HEX_DIGITS[(Head(b) \div 16) + 1], HEX_DIGITS[(Head(b) % 16) + 1]>> \o hexlify(Tail(b))

HexValue(c) == IF \E v \in 1..16 : HEX_DIGITS[v] = c THEN (CHOOSE v \in 1..16 : HEX_DIGITS[v] = c) - 1 ELSE -1

\* binascii.unhexlify(s); <<-1>> stands for binascii.Error
RECURSIVE unhexlify(_)
unhexlify(s) ==
  IF s = <<>> THEN <<>>
  ELSE IF Len(s) = 1 \/ HexValue(s[1]) < 0 \/ HexValue(s[2]) < 0 THEN <<-1>>
  ELSE LET rest == unhexlify(SubSeq(s, 3, Len(s))) IN
       IF rest = <<-1>> THEN rest ELSE <<HexValue(s[1]) * 16 + HexValue(s[2])>> \o rest

\* s.translate(str.maketrans(from, to))
translate(s, from, to) ==
  [i \in DOMAIN s |->
     IF \E k \in DOMAIN from : from[k] = s[i] THEN to[CHOOSE k \in DOMAIN from : from[k] = s[i]] ELSE s[i]]

DIGITS == <<"1","2","3","4","5","6","7","8","9","0">>
LETTERS == <<"g","h","i","j","k","l","m","n","o","p">>

encode_command(command_name) == translate(hexlify(utf8_encode(command_name)), DIGITS, LETTERS)

\* a decode_command that reads the bytes as latin-1
decode_command_latin1(command_name) ==
  LET b == unhexlify(translate(command_name, LETTERS, DIGITS)) IN
  IF b = <<-1>> THEN b ELSE latin1_decode(b)

decode_command(command_name) ==
  LET b == unhexlify(translate(command_name, LETTERS, DIGITS)) IN
  IF b = <<-1>> THEN b ELSE utf8_decode(b)

\* str(b85encode(bz2.compress(b)), "utf-8") and bz2.decompress(b85decode(s)) are
\* the standard library's: the blob of a bytes object, read back unchanged
compress(command_data) == [bz2 |-> utf8_encode(command_data)]
decompress(command_data) == utf8_decode(command_data.bz2)

EmptyDict == [x \in {} |-> <<>>]

\* a compress_device_data that leaves out the formats without commands
compress_device_data_skip_empty(device_data) ==
  IF DOMAIN device_data = {} THEN EmptyDict
  ELSE [snapshot_timestamp |-> device_data.snapshot_timestamp,
        device_name |-> device_data.device_name,
        device_type |-> device_data.device_type,
        output_formats |->
          [format_name \in {f \in DOMAIN device_data.output_formats : DOMAIN device_data.output_formats[f] # {}} |->
             LET format_data == device_data.output_formats[format_name] IN
             [key \in {encode_command(c) : c \in DOMAIN format_data} |->
                compress(format_data[CHOOSE c \in DOMAIN format_data : encode_command(c) = key])]]]

compress_device_data(device_data) ==
  IF DOMAIN device_data = {} THEN EmptyDict
  ELSE [snapshot_timestamp |-> device_data.snapshot_timestamp,
        device_name |-> device_data.device_name,
        device_type |-> device_data.device_type,
        output_formats |->
          [format_name \in DOMAIN device_data.output_formats |->
             LET format_data == device_data.output_formats[format_name] IN
             [key \in {encode_command(c) : c \in DOMAIN format_data} |->
                compress(format_data[CHOOSE c \in DOMAIN format_data : encode_command(c) = key])]]]

decompress_device_data(compressed_device_data) ==
  IF DOMAIN compressed_device_data = {} THEN EmptyDict
  ELSE [snapshot_timestamp |-> compressed_device_data.snapshot_timestamp,
        device_name |-> compressed_device_data.device_name,
        device_type |-> compressed_device_data.device_type,
        output_formats |->
          [format_name \in DOMAIN compressed_device_data.output_formats |->
             LET format_data == compressed_device_data.output_formats[format_name] IN
             [c \in {decode_command(key) : key \in DOMAIN format_data} |->
                decompress(format_data[CHOOSE key \in DOMAIN format_data : decode_command(key) = c])]]]

\* The drivers' model keeps the command names of the catalogs and the captured
\* outputs as atoms: there the stored form of a name or of an output is the
\* tagged atom, which the decoder reads back.
stored_device_data(device_data) ==
  IF DOMAIN device_data = {} THEN EmptyDict
  ELSE [snapshot_timestamp |-> device_data.snapshot_timestamp,
        device_name |-> device_data.device_name,
        device_type |-> device_data.device_type,
        output_formats |->
          [format_name \in DOMAIN device_data.output_formats |->
             LET format_data == device_data.output_formats[format_name] IN
             [key \in {[hex |-> c] : c \in DOMAIN format_data} |-> [bz2 |-> format_data[key.hex]]]]]

loaded_device_data(compressed_device_data) ==
  IF DOMAIN compressed_device_data = {} THEN EmptyDict
  ELSE [snapshot_timestamp |-> compressed_device_data.snapshot_timestamp,
        device_name |-> compressed_device_data.device_name,
        device_type |-> compressed_device_data.device_type,
        output_formats |->
          [format_name \in DOMAIN compressed_device_data.output_formats |->
             LET format_data == compressed_device_data.output_formats[format_name] IN
             [c \in {key.hex : key \in DOMAIN format_data} |-> format_data[[hex |-> c]].bz2]]]

\* ------------------------------------------------------------------------
\* The pseudo-terminal: what the ssh child prints next, and pexpect's expect
\* ------------------------------------------------------------------------

\* What the child shows when the program waits on it.  Every prompt is one ssh or
\* the device waits on for an answer, so nothing follows it until a line is sent;
\* "Connection refused" and "eof" end the child; "nothing" is silence.
Emissions == {"cli_prompt", "password_prompt", "known_hosts", "Connection refused", "nothing", "eof"}

\* how many stale prompts a login banner can leave in the buffer
MaxResidual == 1

IndexOf(patterns, e) == CHOOSE i \in 1..Len(patterns) : patterns[i] = e /\ \A j \in 1..(i-1) : patterns[j] # e

\* spawn.expect(patterns): the zero-based index of the pattern the output matches,
\* pexpect.EOF when the child ended, pexpect.TIMEOUT when nothing matching came
expect(patterns, e) ==
  IF \E i \in 1..Len(patterns) : patterns[i] = e
  THEN [kind |-> "match", index |-> IndexOf(patterns, e) - 1]
  ELSE IF e \in {"Connection refused", "eof"}
       THEN [kind |-> "EOF", index |-> -1]
       ELSE [kind |-> "TIMEOUT", index |-> -1]

\* netcat_cli.exception_handler: pexpect.EOF and pexpect.TIMEOUT become CustomException
exception_handler(r) == IF r.kind \in {"EOF", "TIMEOUT"} THEN "CustomException" ELSE "None"

Event(ev, arg, by) == [ev |-> ev, arg |-> arg, by |-> by]

\* ------------------------------------------------------------------------
\* The adapters
\* ------------------------------------------------------------------------

SendStep(c, kind, f) == [op |-> "send_command", command |-> c, kind |-> kind, format_name |-> f]
ClearStep == [op |-> "clear_pexpect_buffer", command |-> "", kind |-> "setup_cli", format_name |-> <<>>]
Setup(c) == SendStep(c, "setup_cli", <<>>)

\* PACliAccess.setup_cli
setup_cli_pa ==
  << Setup("set cli scripting-mode on"), ClearStep, Setup("set cli terminal width 500"),
     Setup("set cli terminal height 500"), Setup("set cli pager off"),
     Setup("set cli confirmation-prompt off") >>

\* CiscoCliAccess.setup_cli
setup_cli_cisco(type) ==
  IF type \in {T_cisco_asa, T_cisco_asa_mc}
  THEN << ClearStep, Setup("terminal pager 0") >>
  ELSE << ClearStep, Setup("terminal length 0"), Setup("terminal width 500") >>

\* F5CliAccess.setup_cli
setup_cli_f5 ==
  << Setup("modify cli preference pager disabled"), Setup("modify cli preference display-threshold 0"),
     Setup("modify cli preference list-all-properties enabled") >>

\* CiscoCliAccess.__init__: the catalog of each known type; an unknown type raises
CiscoKnown == {T_cisco_nexus, T_cisco_router, T_cisco_switch, T_cisco_asa, T_cisco_asa_mc}

CiscoCliAccess(type) ==
  IF type \notin CiscoKnown
  THEN [raises |-> TRUE, output_formats |-> <<>>, setup |-> <<>>]
  ELSE [raises |-> FALSE,
        output_formats |->
          CASE type = T_cisco_nexus  -> OUTPUT_FORMATS_CISCO_NEXUS
            [] type = T_cisco_router -> OUTPUT_FORMATS_CISCO_ROUTER
            [] type = T_cisco_switch -> OUTPUT_FORMATS_CISCO_SWITCH
            [] type = T_cisco_asa    -> OUTPUT_FORMATS_CISCO_ASA
            [] OTHER                 -> OUTPUT_FORMATS_CISCO_ASA_MC,
        setup |-> setup_cli_cisco(type)]

PACliAccess == [raises |-> FALSE, output_formats |-> OUTPUT_FORMATS_PALOALTO, setup |-> setup_cli_pa]

F5CliAccess == [raises |-> FALSE, output_formats |-> OUTPUT_FORMATS_F5, setup |-> setup_cli_f5]

\* netcat_backup.get_device_data: the adapter a device type selects
HasAdapter(type) ==
  \/ StartsWith(type, <<"p","a","l","o","a","l","t","o">>)
  \/ StartsWith(type, <<"c","i","s","c","o">>)
  \/ StartsWith(type, <<"f","5">>)

AdapterOf(type) ==
  IF StartsWith(type, <<"p","a","l","o","a","l","t","o">>) THEN PACliAccess
  ELSE IF StartsWith(type, <<"c","i","s","c","o">>) THEN CiscoCliAccess(type)
  ELSE F5CliAccess

\* NetCatCliAccess.get_device_data: the lines it sends, in order
RECURSIVE CommandSteps(_, _, _)
CommandSteps(cs, kind, f) ==
  IF cs = <<>> THEN <<>> ELSE <<SendStep(Head(cs), kind, f)>> \o CommandSteps(Tail(cs), kind, f)

\* a get_device_data that captures before it prepares
RECURSIVE CatalogStepsCaptureFirst(_)
CatalogStepsCaptureFirst(output_formats) ==
  IF output_formats = <<>> THEN <<>>
  ELSE LET of == Head(output_formats) IN
       CommandSteps(of.commands, "commands", of.format_name)
       \o CommandSteps(of.pre_commands, "pre_commands", of.format_name)
       \o CommandSteps(of.post_commands, "post_commands", of.format_name)
       \o CatalogStepsCaptureFirst(Tail(output_formats))

RECURSIVE CatalogSteps(_)
CatalogSteps(output_formats) ==
  IF output_formats = <<>> THEN <<>>
  ELSE LET of == Head(output_formats) IN
       CommandSteps(of.pre_commands, "pre_commands", of.format_name)
       \o CommandSteps(of.commands, "commands", of.format_name)
       \o CommandSteps(of.post_commands, "post_commands", of.format_name)
       \o CatalogSteps(Tail(output_formats))

\* ------------------------------------------------------------------------
\* The session at its use site:  with XCliAccess(device_info) as cli: ...
\* ------------------------------------------------------------------------

\* a handler that swallows the fault of a command and lets the caller go on
RaiseAndGoOn(p) == IF p \in {"setup_cli", "get_device_data"} THEN p ELSE "raised"

\* Where an exception raised at position p takes control: out of the with body
\* through __exit__; out of __enter__ (open_cli, setup_cli) past __exit__.
Raise(p) == IF p = "get_device_data" THEN "exit" ELSE "raised"

\* a password loop that retries on every re-prompt
PasswordBranchRetryAlways(r, second) ==
  IF r.kind # "match" THEN "raise"
  ELSE IF r.index = 0 THEN "return"
  ELSE "continue"

\* open_cli, password branch: what an iteration of the password loop does with
\* the answer to the password it sent
PasswordBranch(r, second) ==
  IF r.kind # "match" THEN "raise"
  ELSE IF r.index = 0 THEN "return"
  ELSE IF r.index = 1 /\ ~second THEN "continue"
  ELSE "raise"

\* a known_hosts loop that answers every question
RsaBranchAnswerAlways(r, happened) ==
  IF r.kind # "match" THEN "raise"
  ELSE IF r.index = 0 THEN "return"
  ELSE IF r.index = 1 THEN "continue"
  ELSE "raise"

\* an rsa branch that takes a password prompt for a login
RsaBranchPasswordPromptOpens(r, happened) ==
  IF r.kind # "match" THEN "raise"
  ELSE IF r.index \in {0, 2} THEN "return"
  ELSE IF r.index = 1 /\ ~happened THEN "continue"
  ELSE "raise"

\* open_cli, rsa branch: what an iteration of the known_hosts loop does
RsaBranch(r, happened) ==
  IF r.kind # "match" THEN "raise"
  ELSE IF r.index = 0 THEN "return"
  ELSE IF r.index = 1 /\ ~happened THEN "continue"
  ELSE "raise"
\* ------------------------------------------------------------------------
\* What a device answers, and the snapshot get_device_data builds from it
\* ------------------------------------------------------------------------

\* the configurations a device can show: "noise" differs from "base" only on
\* lines that carry a volatile fragment, "changed" on another line
Profiles == {"base", "noise", "changed"}

ProfileBody(profile) ==
  CASE profile = "base" ->
         <<"hostname", "x", NL, "!Time:", "Mon", NL, "eth0", "state", "up", NL, "ip", "route", "a", NL>>
    [] profile = "noise" ->
         <<"hostname", "x", NL, "!Time:", "Tue", NL, "eth0", "state", "down", NL, "ip", "route", "a", NL>>
    [] OTHER ->
         <<"hostname", "x", NL, "!Time:", "Mon", NL, "eth0", "state", "up", NL, "ip", "route", "b", NL>>

\* the capture of one command: its lines joined by "\n", plus a trailing "\n"
DeviceText(profile, command) == <<command, NL>> \o ProfileBody(profile)

SeqToSet(s) == {s[i] : i \in DOMAIN s}

FormatOf(output_formats, format_name) ==
  CHOOSE of \in SeqToSet(output_formats) : of.format_name = format_name

\* NetCatCliAccess.get_device_data: the device_data structure
device_data_of(info, profile) ==
  LET output_formats == AdapterOf(info.device_type).output_formats IN
  [snapshot_timestamp |-> 0,
   device_name |-> info.device_name,
   device_type |-> info.device_type,
   output_formats |->
     [format_name \in {of.format_name : of \in SeqToSet(output_formats)} |->
        [c \in SeqToSet(FormatOf(output_formats, format_name).commands) |-> DeviceText(profile, c)]]]

\* ------------------------------------------------------------------------
\* Storage adapters (netcat_dynamodb, netcat_mongodb, netcat_fsdb)
\* ------------------------------------------------------------------------

Backends == {"DynamoDB", "MongoDB", "FsDB"}
Tables == {DBT_INFO, DBT_BACKUP, DBT_STATUS}

\* create_tables(), called on a store where the tables of existing are there:
\* the tables that exist when it returns
\*   DynamoDB: create_table for each of the three, ResourceInUseException ignored
\*   MongoDB:  a collection comes to exist when an index is created on it; the
\*             branch for a missing status table indexes the info collection
\*   FsDB:     mkdir(parents=True, exist_ok=True) for each of the three
tables_after_create_tables(backend, existing) ==
  IF backend = "MongoDB"
  THEN existing
       \cup (IF DBT_STATUS \notin existing THEN {DBT_INFO} ELSE {})
       \cup (IF DBT_INFO \notin existing THEN {DBT_INFO} ELSE {})
       \cup (IF DBT_BACKUP \notin existing THEN {DBT_BACKUP} ELSE {})
  ELSE existing \cup {DBT_STATUS, DBT_INFO, DBT_BACKUP}

\* the primary key of a document in its table
PrimaryKey(table_name, document) ==
  IF table_name = DBT_STATUS
  THEN <<document.snapshot_name, document.snapshot_timestamp>>
  ELSE <<document.device_name, document.snapshot_timestamp>>

RECURSIVE SelectSeq2(_, _, _)
SelectSeq2(s, table_name, key) ==
  IF s = <<>> THEN <<>>
  ELSE IF PrimaryKey(table_name, Head(s)) = key
       THEN SelectSeq2(Tail(s), table_name, key)
       ELSE <<Head(s)>> \o SelectSeq2(Tail(s), table_name, key)

\* what db.write(table_name, document) does when the store takes the document:
\* "stored", or the exception the call ends with
\*   DynamoDB: put_item replaces the item of the same primary key
\*   MongoDB:  insert_one adds a document
\*   FsDB:     the file of that device and timestamp is rewritten; the file name is built with document["device_name"] and
\*             document["snapshot_timestamp"].replace(" ", "_"); the drivers'
\*             timestamp is an int and the status document has no device_name
write_result(backend, table_name) ==
  IF backend = "FsDB"
  THEN (IF table_name = DBT_STATUS THEN "KeyError" ELSE "AttributeError")
  ELSE "stored"

stored_form(table_name, document) ==
  IF table_name \in {DBT_INFO, DBT_BACKUP} THEN stored_device_data(document) ELSE document

put(backend, contents, table_name, document) ==
  LET d == stored_form(table_name, document) IN
  IF backend \in {"DynamoDB", "FsDB"}
  THEN Append(SelectSeq2(contents, table_name, PrimaryKey(table_name, d)), d)
  ELSE Append(contents, d)

\* the stored backups of a device
BackupsOf(contents, device_name) ==
  {i \in DOMAIN contents : contents[i].device_name = device_name}

\* a load_latest_backup that reads the index forward
load_oldest_backup(backend, contents, device_name) ==
  LET mine == BackupsOf(contents, device_name) IN
  IF backend = "FsDB" \/ mine = {} THEN EmptyDict
  ELSE loaded_device_data(
         contents[CHOOSE i \in mine : \A j \in mine : contents[i].snapshot_timestamp =< contents[j].snapshot_timestamp])

\* load_latest_backup(device_name)
\*   DynamoDB: query by device_name, ScanIndexForward False, Limit 1
\*   MongoDB:  find_one sorted by snapshot_timestamp descending
\*   FsDB:     returns {}
load_latest_backup(backend, contents, device_name) ==
  LET mine == BackupsOf(contents, device_name) IN
  IF backend = "FsDB" \/ mine = {} THEN EmptyDict
  ELSE loaded_device_data(
         contents[CHOOSE i \in mine : \A j \in mine : contents[i].snapshot_timestamp >= contents[j].snapshot_timestamp])

\* ------------------------------------------------------------------------
\* netcat_backup: change detection and persistence
\* ------------------------------------------------------------------------

\* a detector that reports a change only when a prior backup differs
detect_config_change_unless_first(device_data, latest) ==
  LET previous_formats == Get(latest, "output_formats", EmptyDict) IN
  /\ DOMAIN previous_formats # {}
  /\ \E format_key \in DOMAIN device_data.output_formats :
       /\ StartsWith(format_key, <<"b","a","c","k","u","p">>)
       /\ \E command_output_key \in DOMAIN device_data.output_formats[format_key] :
            ~compare_command_outputs(
               device_data.output_formats[format_key][command_output_key],
               Get(Get(previous_formats, format_key, EmptyDict), command_output_key, <<>>))

\* detect_config_change(device_info), given what load_latest_backup returned
detect_config_change(device_data, latest) ==
  LET previous_formats == Get(latest, "output_formats", EmptyDict) IN
  IF DOMAIN previous_formats = {} THEN TRUE
  ELSE \E format_key \in DOMAIN device_data.output_formats :
         /\ StartsWith(format_key, <<"b","a","c","k","u","p">>)
         /\ \E command_output_key \in DOMAIN device_data.output_formats[format_key] :
              ~compare_command_outputs(
                 device_data.output_formats[format_key][command_output_key],
                 Get(Get(previous_formats, format_key, EmptyDict), command_output_key, <<>>))

\* a document that takes every format, whatever the table
Document_unfiltered(device_data, timestamp, table_name) ==
  [snapshot_timestamp |-> timestamp,
   device_name |-> device_data.device_name,
   device_type |-> device_data.device_type,
   output_formats |-> device_data.output_formats]

\* save_device_data._ : the document of a table
Document(device_data, timestamp, table_name) ==
  [snapshot_timestamp |-> timestamp,
   device_name |-> device_data.device_name,
   device_type |-> device_data.device_type,
   output_formats |->
     [f \in {g \in DOMAIN device_data.output_formats : StartsWith(g, SliceFrom(table_name, 7))} |->
        device_data.output_formats[f]]]

\* a save that writes the backup only when forced
save_backup_only_forced(config_change, force_backup) == force_backup

\* save_device_data: whether the backup table is written
save_backup_wanted(config_change, force_backup) == config_change \/ force_backup

\* ------------------------------------------------------------------------
\* Device names, the inventory file and the command line
\* ------------------------------------------------------------------------

R1 == <<"r", "1">>
P1 == <<"p", "1">>
J1 == <<"j", "1">>
NO_NAME == <<>>
IP_ADDRESS == <<"1", ".", "1", ".", "1", ".", "1">>

\* the characters of the names, in code point order
CharOrder == <<".", "0", "1", "j", "p", "r">>
Ord(c) == CHOOSE i \in DOMAIN CharOrder : CharOrder[i] = c

\* str.__lt__
RECURSIVE StrLess(_, _)
StrLess(a, b) ==
  IF b = <<>> THEN FALSE
  ELSE IF a = <<>> THEN TRUE
  ELSE IF Head(a) # Head(b) THEN Ord(Head(a)) < Ord(Head(b))
  ELSE StrLess(Tail(a), Tail(b))

RECURSIVE Insert(_, _)
Insert(x, s) ==
  IF s = <<>> THEN <<x>>
  ELSE IF StrLess(x, Head(s)) THEN <<x>> \o s
  ELSE <<Head(s)>> \o Insert(x, Tail(s))

\* sorted(list of str)
RECURSIVE sorted(_)
sorted(s) == IF s = <<>> THEN <<>> ELSE Insert(s[Len(s)], sorted(SubSeq(s, 1, Len(s) - 1)))

\* sorted(set of str)
RECURSIVE SortedSet(_)
SortedSet(S) ==
  IF S = {} THEN <<>>
  ELSE LET x == CHOOSE y \in S : \A z \in S : z = y \/ StrLess(y, z)
       IN <<x>> \o SortedSet(S \ {x})

Names(device_info_list) == [i \in DOMAIN device_info_list |-> device_info_list[i].device_name]

Device(name, type) == [device_name |-> name, device_type |-> type, auth |-> "password"]

\* what device_info_list.json can hold: nothing readable, or a list of descriptors
InventoryFiles ==
  { [readable |-> FALSE, content |-> <<>>],
    [readable |-> TRUE, content |-> <<>>],
    [readable |-> TRUE, content |-> <<Device(R1, T_cisco_router), Device(P1, T_paloalto)>>],
    [readable |-> TRUE, content |-> <<Device(R1, T_cisco_router), Device(R1, T_cisco_switch)>>],
    [readable |-> TRUE, content |-> <<Device(R1, T_cisco_router), Device(J1, T_juniper)>>],
    [readable |-> TRUE, content |-> <<Device(R1, T_cisco_router), Device(NO_NAME, T_cisco_switch)>>] }

\* read_info_list_file
read_info_list_file(file) == IF file.readable THEN file.content ELSE <<>>

\* the selector of the command line; an option not given is empty
NoSelector == [all |-> FALSE, group |-> <<>>, device |-> <<>>, regexp |-> <<>>, ip_address |-> <<>>]

Selectors(prog) ==
  (IF prog = "netcat_backup" THEN {[NoSelector EXCEPT !.all = TRUE]} ELSE {})
  \cup (IF prog = "netcat_deploy" THEN {[NoSelector EXCEPT !.ip_address = IP_ADDRESS]} ELSE {})
  \cup { [NoSelector EXCEPT !.group = T_cisco_router],
         [NoSelector EXCEPT !.device = IF prog = "netcat_backup" THEN <<R1>> ELSE <<R1, P1>>],
         [NoSelector EXCEPT !.regexp = <<"^", "r">>],
         [NoSelector EXCEPT !.regexp = <<"(">>] }

\* re.search(regexp, name) for the patterns above: "^" anchors a literal prefix,
\* an unbalanced "(" is a re.error; a list in place of the pattern is a TypeError
re_search(prog, regexp, name) ==
  IF prog = "netcat_deploy" THEN "TypeError"
  ELSE IF \E i \in DOMAIN regexp : regexp[i] = "(" THEN "re.error"
  ELSE IF StartsWith(name, Tail(regexp)) THEN "match"
  ELSE "None"

\* get_requested_device_name_list(device_info_list, args): the list, or the
\* exception that escapes
get_requested_device_name_list(prog, device_info_list, args) ==
  LET names == Names(device_info_list)
      InGroup(d) == d.device_type = args.group
      InDevice(d) == d.device_name \in SeqToSet(args.device)
      InRegexp(d) == re_search(prog, args.regexp, d.device_name) = "match"
      outcomes == {re_search(prog, args.regexp, d.device_name) : d \in SeqToSet(device_info_list)}
  IN IF args.all THEN [raises |-> "None", list |-> names]
     ELSE IF args.group \in SUPPORTED_DEVICE_TYPES
     THEN [raises |-> "None", list |-> Names(SelectSeq(device_info_list, InGroup))]
     ELSE IF args.device # <<>>
     THEN [raises |-> "None", list |-> Names(SelectSeq(device_info_list, InDevice))]
     ELSE IF args.regexp # <<>>
     THEN (IF "TypeError" \in outcomes THEN [raises |-> "TypeError", list |-> <<>>]
           ELSE IF "re.error" \in outcomes THEN [raises |-> "None", list |-> <<>>]
           ELSE [raises |-> "None", list |-> Names(SelectSeq(device_info_list, InRegexp))])
     ELSE [raises |-> "None", list |-> <<>>]

\* the data_list of execute_data_processing_function
data_list_of(device_info_list, requested_device_name_list) ==
  LET Requested(d) == d.device_name \in SeqToSet(requested_device_name_list)
  IN SelectSeq(device_info_list, Requested)

\* a failed list that names every requested device
failed_list_all_requested(requested, successful) == sorted(requested)

\* failed_device_name_list = sorted(set(requested) - set(successful))
failed_list(requested, successful) == SortedSet(SeqToSet(requested) \ SeqToSet(successful))

\* the last descriptor of a name in the inventory (a dict comprehension keeps
\* the last value of a key)
LastOf(device_info_list, name) ==
  device_info_list[CHOOSE i \in DOMAIN device_info_list :
     /\ device_info_list[i].device_name = name
     /\ \A j \in DOMAIN device_info_list : device_info_list[j].device_name = name => j <= i]

\* a status document that flags as failed every device that is not successful
status_document_failed_unless_successful(device_info_list, timestamp, successful_device_name_list, failed_device_name_list) ==
  [snapshot_name |-> "info_status",
   snapshot_timestamp |-> timestamp,
   device_info_dict |->
     [name \in {n \in SeqToSet(Names(device_info_list)) : n # <<>>} |->
        [device_type |-> LastOf(device_info_list, name).device_type,
         failed |-> name \notin SeqToSet(successful_device_name_list),
         successful |-> name \in SeqToSet(successful_device_name_list)]]]

\* save_final_status: the status document
status_document(device_info_list, timestamp, successful_device_name_list, failed_device_name_list) ==
  [snapshot_name |-> "info_status",
   snapshot_timestamp |-> timestamp,
   device_info_dict |->
     [name \in {n \in SeqToSet(Names(device_info_list)) : n # <<>>} |->
        [device_type |-> LastOf(device_info_list, name).device_type,
         failed |-> name \in SeqToSet(failed_device_name_list),
         successful |-> name \in SeqToSet(successful_device_name_list)]]]

\* ------------------------------------------------------------------------
\* State
\* ------------------------------------------------------------------------

VARIABLES
  \* one CLI session at its use site (netcat_backup.get_device_data)
  device_info,    \* the descriptor the session is built from
  cli,            \* self.cli: "None", or the ssh child: "alive" / "closed"
  pc,             \* where control is in the use site
  second_password_attempt,              \* loop variable of open_cli, password branch
  known_hosts_check_happened_already,   \* loop variable of open_cli, rsa branch
  steps,          \* the commands setup_cli / get_device_data still have to send
  residual,       \* prompts clear_pexpect_buffer has consumed in its current call
  io,             \* what was sent to / expected from / slept on the child, in order
  exc,            \* the exception in flight ("None" when none)
  opened,         \* open_cli returned
  finalized,      \* __del__ ran
  \* one run of a job driver
  program,                      \* the driver that runs
  DB_INTERFACE,                 \* netcat.DB_INTERFACE
  SINGLE_PROCESS_MODE,          \* netcat.SINGLE_PROCESS_MODE
  arguments,                    \* the parsed command line
  inventory_file,               \* device_info_list.json
  history,                      \* what device R1 showed to the earlier backup jobs
  db,                           \* the store: the documents of each table
  db_tables,                    \* the tables that exist in the store
  timestamp,                    \* main's timestamp
  main_pc,                      \* where main is
  exit_status,                  \* the status the driver process ended with (-1 while it runs)
  exit_at,                      \* the statement of main the process ended at ("" while it runs)
  device_info_list,
  requested_device_name_list,
  successful_device_name_list,
  failed_device_name_list,
  process_pool,                 \* the tasks of execute_data_processing_function
  writes,                       \* the db.write calls made so far, in order
  \* one application of a function of the drivers
  call,           \* the function and its arguments
  ret,            \* <<>> before it returns, then <<the value it returned>>
  \* one call of db.write
  attempts,       \* the attempts the retry loop has left
  puts,           \* how each put_item / insert_one ended, in order
  sleep_times,    \* the sleep_time of each sleep, in tenths of a second, in order
  raised,         \* the exception the call ended with ("None" when none)
  \* one operation of PACliAccess on an open session
  snippet,        \* the configuration snippet
  no_commit,      \* the --no-commit flag
  ha_prompt,      \* what the device prints after "username@NAME" as its prompt
  pa_pc,          \* where control is in the operation
  pa_loop,        \* the passes the current for loop has left, or the index of its line
  pa_io,          \* what was sent to / expected from / slept on the child, in order
  command_output, \* the text captured by the last commit
  pa_exc,         \* the exception the operation ended with ("None" when none)
  \* one call of netcat_upgrade.upgrade_software
  upgrade,        \* the --upgrade flag
  requested_software_version,   \* the version asked for, split on "."
  up_device_type, \* device_info["device_type"]
  up_pc,          \* where control is
  dependency,     \* the index of the software version being downloaded
  available,      \* the versions the software check showed as downloaded
  attempts_left,  \* the passes left of the current "for _ in range(3)"
  tries_left,     \* the passes left of the current "for _ in range(30)"
  job,            \* the state and result last read from "show jobs id"
  ha_states,      \* the states last read from "show high-availability all"
  up_log,         \* the commands sent and the calls that returned, each once, in order
  up_exc,         \* the exception the call ended with ("None" when none)
  \* one deployment on a Cisco device (netcat_deploy.deploy_config_snippet)
  deploy_args,    \* device_info["device_type"], snippet, site_id_check, inet_gw_check
  cd_pc,          \* where control is in the deployment
  cd_io,          \* what was sent to / expected from the child, in order
  cd_exc          \* the exception the deployment ended with ("None" when none)

svars == <<device_info, cli, pc, second_password_attempt, known_hosts_check_happened_already,
           steps, residual, io, exc, opened, finalized>>

jvars == <<program, DB_INTERFACE, SINGLE_PROCESS_MODE, arguments, inventory_file, history, db,
           db_tables, timestamp, main_pc, exit_status, exit_at, device_info_list,
           requested_device_name_list, successful_device_name_list, failed_device_name_list,
           process_pool, writes>>

\* no session is modelled in detail
SessionIdle ==
  /\ device_info = Device(R1, T_cisco_router)
  /\ cli = "None"
  /\ pc = "idle"
  /\ second_password_attempt = FALSE
  /\ known_hosts_check_happened_already = FALSE
  /\ steps = <<>>
  /\ residual = 0
  /\ io = <<>>
  /\ exc = "None"
  /\ opened = FALSE
  /\ finalized = FALSE

\* no job is modelled
JobIdle ==
  /\ program = "netcat_backup"
  /\ DB_INTERFACE = "DynamoDB"
  /\ SINGLE_PROCESS_MODE = FALSE
  /\ arguments = [force_backup |-> FALSE, test_run |-> FALSE, selector |-> NoSelector]
  /\ inventory_file = [readable |-> TRUE, content |-> <<>>]
  /\ history = <<>>
  /\ db = [t \in Tables |-> <<>>]
  /\ db_tables = {}
  /\ timestamp = 1
  /\ main_pc = "idle"
  /\ exit_status = -1
  /\ exit_at = ""
  /\ device_info_list = <<>>
  /\ requested_device_name_list = <<>>
  /\ successful_device_name_list = <<>>
  /\ failed_device_name_list = <<>>
  /\ process_pool = <<>>
  /\ writes = <<>>

fvars == <<call, ret>>

\* no function application is modelled in detail
FIdle == call = [function |-> "None"] /\ ret = <<>>

\* the variables of the other specifications and their values under a
\* specification that does not use them
wvars == <<attempts, puts, sleep_times, raised>>

\* no db.write call is modelled in detail
WIdle == attempts = 0 /\ puts = <<>> /\ sleep_times = <<>> /\ raised = "None"

pvars == <<snippet, no_commit, ha_prompt, pa_pc, pa_loop, pa_io, command_output, pa_exc>>

\* no operation of PACliAccess is modelled in detail
PIdle ==
  /\ snippet = <<>>
  /\ no_commit = FALSE
  /\ ha_prompt = <<>>
  /\ pa_pc = "idle"
  /\ pa_loop = 0
  /\ pa_io = <<>>
  /\ command_output = <<>>
  /\ pa_exc = "None"

uvars == <<upgrade, requested_software_version, up_device_type, up_pc, dependency, available, attempts_left, tries_left, job,
           ha_states, up_log, up_exc>>

\* no software upgrade is modelled in detail
UIdle ==
  /\ upgrade = FALSE
  /\ requested_software_version = <<"9", "0", "7">>
  /\ up_device_type = T_paloalto
  /\ up_pc = "idle"
  /\ dependency = 0
  /\ available = {}
  /\ attempts_left = 0
  /\ tries_left = 0
  /\ job = [state |-> "", result |-> ""]
  /\ ha_states = <<>>
  /\ up_log = <<>>
  /\ up_exc = "None"

dvars == <<deploy_args, cd_pc, cd_io, cd_exc>>

\* no deployment on a Cisco device is modelled in detail
DIdle ==
  /\ deploy_args = [device_type |-> T_cisco_router, snippet |-> <<>>, site_id_check |-> FALSE, inet_gw_check |-> FALSE]
  /\ cd_pc = "idle"
  /\ cd_io = <<>>
  /\ cd_exc = "None"

xvars == <<fvars, wvars, pvars, uvars, dvars>>

XIdle == FIdle /\ WIdle /\ PIdle /\ UIdle /\ DIdle

vars == <<svars, jvars, xvars>>

SessionDevices ==
  { [device_name |-> "r1", device_type |-> t, auth |-> a] :
      t \in SUPPORTED_DEVICE_TYPES \cup {T_juniper, T_cisco_wlc}, a \in {"password", "rsa", "none"} }

SessionInit ==
  /\ device_info \in SessionDevices
  /\ cli = "None"
  /\ pc = "use_site"
  /\ second_password_attempt = FALSE
  /\ known_hosts_check_happened_already = FALSE
  /\ steps = <<>>
  /\ residual = 0
  /\ io = <<>>
  /\ exc = "None"
  /\ opened = FALSE
  /\ finalized = FALSE
  /\ JobIdle
  /\ XIdle

\* get_device_data picks the adapter and constructs it
Construct ==
  /\ pc = "use_site"
  /\ IF HasAdapter(device_info.device_type) /\ ~AdapterOf(device_info.device_type).raises
     THEN pc' = "enter" /\ exc' = exc
     ELSE pc' = "raised" /\ exc' = "CustomException"
  /\ UNCHANGED <<device_info, cli, second_password_attempt, known_hosts_check_happened_already,
                 steps, residual, io, opened, finalized>>
  /\ UNCHANGED <<jvars, xvars>>

\* __enter__ calls open_cli, which spawns ssh for a known auth type
OpenCli ==
  /\ pc = "enter"
  /\ CASE device_info.auth = "password" -> cli' = "alive" /\ pc' = "pw_first" /\ exc' = exc
       [] device_info.auth = "rsa"      -> cli' = "alive" /\ pc' = "rsa_loop" /\ exc' = exc
       [] OTHER                         -> cli' = cli /\ pc' = Raise(pc) /\ exc' = "CustomException"
  /\ UNCHANGED <<device_info, second_password_attempt, known_hosts_check_happened_already,
                 steps, residual, io, opened, finalized>>
  /\ UNCHANGED <<jvars, xvars>>

\* open_cli returns: __enter__ goes on to setup_cli
OpenReturns ==
  /\ opened' = TRUE
  /\ pc' = "setup_cli"
  /\ steps' = AdapterOf(device_info.device_type).setup
  /\ exc' = exc

OpenRaises ==
  /\ pc' = Raise(pc)
  /\ exc' = "CustomException"
  /\ UNCHANGED <<opened, steps>>

\* password branch: the first expect after the spawn
PasswordFirstExpect(e) ==
  /\ pc = "pw_first"
  /\ LET r == expect(<<"password_prompt", "known_hosts", "Connection refused">>, e) IN
     IF r.kind = "match" /\ r.index = 0
     THEN /\ pc' = "pw_loop"
          /\ io' = Append(io, Event("expect", e, "open_cli"))
          /\ UNCHANGED <<exc, opened, steps>>
     ELSE IF r.kind = "match" /\ r.index = 1
     THEN /\ pc' = "pw_after_yes"
          /\ io' = io \o <<Event("expect", e, "open_cli"), Event("sendline", "yes", "open_cli")>>
          /\ UNCHANGED <<exc, opened, steps>>
     ELSE /\ io' = Append(io, Event("expect", e, "open_cli"))
          /\ OpenRaises
  /\ UNCHANGED <<device_info, cli, second_password_attempt, known_hosts_check_happened_already,
                 residual, finalized>>
  /\ UNCHANGED <<jvars, xvars>>

\* password branch: after the "yes", only the password prompt is expected
PasswordExpectAfterYes(e) ==
  /\ pc = "pw_after_yes"
  /\ io' = Append(io, Event("expect", e, "open_cli"))
  /\ IF expect(<<"password_prompt">>, e).kind = "match"
     THEN pc' = "pw_loop" /\ UNCHANGED <<exc, opened, steps>>
     ELSE OpenRaises
  /\ UNCHANGED <<device_info, cli, second_password_attempt, known_hosts_check_happened_already,
                 residual, finalized>>
  /\ UNCHANGED <<jvars, xvars>>

\* password branch: one iteration of  for second_password_attempt in [False, True]
PasswordAttempt(e) ==
  /\ pc = "pw_loop"
  /\ LET r == expect(<<"cli_prompt", "password_prompt">>, e)
         b == PasswordBranch(r, second_password_attempt)
         sent == io \o <<Event("sendline", "password", "open_cli"), Event("expect", e, "open_cli")>>
     IN
     CASE b = "return" ->
            /\ io' = sent
            /\ OpenReturns
            /\ UNCHANGED second_password_attempt
       [] b = "continue" ->
            /\ io' = Append(sent, Event("sleep", "5", "open_cli"))
            /\ IF second_password_attempt
               THEN OpenReturns /\ UNCHANGED second_password_attempt   \* the loop is exhausted
               ELSE second_password_attempt' = TRUE /\ UNCHANGED <<pc, exc, opened, steps>>
       [] OTHER ->
            /\ io' = sent
            /\ OpenRaises
            /\ UNCHANGED second_password_attempt
  /\ UNCHANGED <<device_info, cli, known_hosts_check_happened_already, residual, finalized>>
  /\ UNCHANGED <<jvars, xvars>>

\* rsa branch: one iteration of  for known_hosts_check_happened_already in [False, True]
RsaAttempt(e) ==
  /\ pc = "rsa_loop"
  /\ LET r == expect(<<"cli_prompt", "known_hosts", "password_prompt", "Connection refused">>, e)
         b == RsaBranch(r, known_hosts_check_happened_already)
         got == Append(io, Event("expect", e, "open_cli"))
     IN
     CASE b = "return" ->
            /\ io' = got
            /\ OpenReturns
            /\ UNCHANGED known_hosts_check_happened_already
       [] b = "continue" ->
            /\ io' = Append(got, Event("sendline", "yes", "open_cli"))
            /\ IF known_hosts_check_happened_already
               THEN OpenReturns /\ UNCHANGED known_hosts_check_happened_already   \* the loop is exhausted
               ELSE known_hosts_check_happened_already' = TRUE /\ UNCHANGED <<pc, exc, opened, steps>>
       [] OTHER ->
            /\ io' = got
            /\ OpenRaises
            /\ UNCHANGED known_hosts_check_happened_already
  /\ UNCHANGED <<device_info, cli, second_password_attempt, residual, finalized>>
  /\ UNCHANGED <<jvars, xvars>>

\* what follows the last step of setup_cli (__enter__ returns, the body starts)
\* and of get_device_data (the body returns, __exit__ runs)
AfterStep(p, rest) ==
  IF rest # <<>> THEN [pc |-> p, steps |-> rest]
  ELSE IF p = "setup_cli"
       THEN [pc |-> "get_device_data",
             steps |-> CatalogSteps(AdapterOf(device_info.device_type).output_formats)]
       ELSE [pc |-> "exit", steps |-> <<>>]

\* send_command: send the line, wait for the CLI prompt
send_command(e) ==
  /\ pc \in {"setup_cli", "get_device_data"}
  /\ steps # <<>>
  /\ Head(steps).op = "send_command"
  /\ io' = io \o <<Event("sendline", Head(steps).command, "send_command"),
                   Event("expect", e, "send_command")>>
  /\ LET r == expect(<<"cli_prompt">>, e) IN
     IF exception_handler(r) = "None"
     THEN /\ pc' = AfterStep(pc, Tail(steps)).pc
          /\ steps' = AfterStep(pc, Tail(steps)).steps
          /\ exc' = exc
     ELSE /\ pc' = Raise(pc)
          /\ exc' = exception_handler(r)
          /\ steps' = steps
  /\ UNCHANGED <<device_info, cli, second_password_attempt, known_hosts_check_happened_already,
                 residual, opened, finalized>>
  /\ UNCHANGED <<jvars, xvars>>

\* clear_pexpect_buffer: one expect of its loop; a timeout ends the loop, the end
\* of the child is a pexpect.EOF no handler wraps
clear_pexpect_buffer(e) ==
  /\ pc \in {"setup_cli", "get_device_data"}
  /\ steps # <<>>
  /\ Head(steps).op = "clear_pexpect_buffer"
  /\ io' = Append(io, Event("expect", e, "clear_pexpect_buffer"))
  /\ LET r == expect(<<"cli_prompt">>, e) IN
     CASE r.kind = "match" ->
            /\ residual < MaxResidual
            /\ residual' = residual + 1
            /\ UNCHANGED <<pc, steps, exc>>
       [] r.kind = "TIMEOUT" ->
            /\ residual' = 0
            /\ pc' = AfterStep(pc, Tail(steps)).pc
            /\ steps' = AfterStep(pc, Tail(steps)).steps
            /\ exc' = exc
       [] OTHER ->
            /\ residual' = 0
            /\ pc' = Raise(pc)
            /\ exc' = "pexpect.EOF"
            /\ steps' = steps
  /\ UNCHANGED <<device_info, cli, second_password_attempt, known_hosts_check_happened_already,
                 opened, finalized>>
  /\ UNCHANGED <<jvars, xvars>>

\* the operator's Ctrl-C while the session waits on the child
KeyboardInterrupt ==
  /\ pc \in {"pw_first", "pw_after_yes", "pw_loop", "rsa_loop", "setup_cli", "get_device_data"}
  /\ exc' = "KeyboardInterrupt"
  /\ pc' = Raise(pc)
  /\ UNCHANGED <<device_info, cli, second_password_attempt, known_hosts_check_happened_already,
                 steps, residual, io, opened, finalized>>
  /\ UNCHANGED <<jvars, xvars>>

\* __exit__ closes the child and lets the exception, if any, go on
Exit ==
  /\ pc = "exit"
  /\ cli' = "closed"
  /\ pc' = IF exc = "None" THEN "returned" ELSE "raised"
  /\ UNCHANGED <<device_info, second_password_attempt, known_hosts_check_happened_already,
                 steps, residual, io, exc, opened, finalized>>
  /\ UNCHANGED <<jvars, xvars>>

\* __del__, when the interpreter finalises the object: some time after the use
\* site is left, or never
Del ==
  /\ pc \in {"returned", "raised"}
  /\ ~finalized
  /\ finalized' = TRUE
  /\ cli' = IF cli = "None" THEN cli ELSE "closed"
  /\ UNCHANGED <<device_info, pc, second_password_attempt, known_hosts_check_happened_already,
                 steps, residual, io, exc, opened>>
  /\ UNCHANGED <<jvars, xvars>>

SessionNext ==
  \/ Construct
  \/ OpenCli
  \/ \E e \in Emissions : PasswordFirstExpect(e)
  \/ \E e \in Emissions : PasswordExpectAfterYes(e)
  \/ \E e \in Emissions : PasswordAttempt(e)
  \/ \E e \in Emissions : RsaAttempt(e)
  \/ \E e \in Emissions : send_command(e)
  \/ \E e \in Emissions : clear_pexpect_buffer(e)
  \/ KeyboardInterrupt
  \/ Exit
  \/ Del

SpecSession == SessionInit /\ [][SessionNext]_vars


\* ------------------------------------------------------------------------
\* The job drivers (netcat_backup, netcat_deploy, netcat_upgrade) and the
\* worker pool of execute_data_processing_function
\* ------------------------------------------------------------------------

Programs == {"netcat_backup", "netcat_deploy", "netcat_upgrade"}

\* netcat.exception_handler: what leaves a decorated function that raised e
netcat_exception_handler(e) ==
  IF e \in {"CustomException", "KeyboardInterrupt"} THEN "SystemExit" ELSE e

\* execute_data_processing_function: the merged results of the workers that
\* returned
results_of(pool) ==
  LET Returned(w) == w.pc = "returned" IN
  [i \in DOMAIN SelectSeq(pool, Returned) |-> SelectSeq(pool, Returned)[i].device_info.device_name]

Worker(info) ==
  [device_info |-> info, pc |-> "queued", at |-> "", raised |-> "None", profile |-> "None",
   previous_found |-> FALSE, config_change |-> FALSE, exception |-> "None"]

Finished(w) == w.pc \in {"returned", "raised"}

\* the exception a write ends with when the store refuses the document
\*   DynamoDB: CustomException;  MongoDB: the handler names random / time /
\*   CustomException, none of which the module imports
store_fault(backend) == IF backend = "DynamoDB" THEN "CustomException" ELSE "NameError"

EmptyStore == [t \in Tables |-> <<>>]

\* the store after earlier backup jobs saw device R1 show the profiles of shown,
\* one job per element, job k carrying timestamp k
RECURSIVE Replay(_, _, _)
Replay(backend, shown, k) ==
  IF k = 0 THEN EmptyStore
  ELSE LET before == Replay(backend, shown, k - 1)
           data == device_data_of(Device(R1, T_cisco_router), shown[k])
           change == detect_config_change(data, load_latest_backup(backend, before[DBT_BACKUP], R1))
           with_backup ==
             IF save_backup_wanted(change, FALSE) /\ write_result(backend, DBT_BACKUP) = "stored"
             THEN [before EXCEPT ![DBT_BACKUP] = put(backend, @, DBT_BACKUP, Document(data, k, DBT_BACKUP))]
             ELSE before
       IN IF write_result(backend, DBT_INFO) = "stored"
          THEN [with_backup EXCEPT ![DBT_INFO] = put(backend, @, DBT_INFO, Document(data, k, DBT_INFO))]
          ELSE before

Histories == { <<>>, <<"base">>, <<"changed", "base">> }

Init ==
  /\ program \in Programs
  /\ DB_INTERFACE \in (IF program = "netcat_backup" THEN Backends ELSE {"DynamoDB"})
  /\ SINGLE_PROCESS_MODE \in BOOLEAN
  /\ arguments \in
       { [force_backup |-> f, test_run |-> t, selector |-> s] :
           f \in (IF program = "netcat_backup" THEN BOOLEAN ELSE {FALSE}),
           t \in (IF program = "netcat_backup" THEN BOOLEAN ELSE {FALSE}),
           s \in Selectors(program) }
  /\ inventory_file \in InventoryFiles
  /\ history \in (IF program = "netcat_backup" THEN Histories ELSE {<<>>})
  /\ db = Replay(DB_INTERFACE, history, Len(history))
  /\ db_tables = IF history = <<>> THEN {} ELSE Tables
  /\ timestamp = Len(history) + 1
  /\ main_pc = IF program = "netcat_backup" THEN "create_tables" ELSE "read_info_list_file"
  /\ exit_status = -1
  /\ exit_at = ""
  /\ device_info_list = <<>>
  /\ requested_device_name_list = <<>>
  /\ successful_device_name_list = <<>>
  /\ failed_device_name_list = <<>>
  /\ process_pool = <<>>
  /\ writes = <<>>
  /\ SessionIdle
  /\ XIdle

\* db.create_tables(): the backup driver calls it on every run
\*   MongoDB creates the info and backup collections by indexing them
create_tables ==
  /\ main_pc = "create_tables"
  /\ db_tables' = tables_after_create_tables(DB_INTERFACE, db_tables)
  /\ main_pc' = "read_info_list_file"
  /\ UNCHANGED <<program, DB_INTERFACE, SINGLE_PROCESS_MODE, arguments, inventory_file, history, db,
                 timestamp, exit_status, exit_at, device_info_list, requested_device_name_list,
                 successful_device_name_list, failed_device_name_list, process_pool, writes>>
  /\ UNCHANGED <<svars, xvars>>

\* main: the inventory is read, or, in the deploy driver with --ip-address,
\* replaced by one synthetic descriptor
ReadInfoListFile ==
  /\ main_pc = "read_info_list_file"
  /\ IF arguments.selector.ip_address # <<>>
     THEN \E valid \in BOOLEAN :
            IF valid
            THEN /\ requested_device_name_list' = <<arguments.selector.ip_address>>
                 /\ device_info_list' = <<Device(arguments.selector.ip_address, T_paloalto)>>
                 /\ main_pc' = "read_snippet_files"
                 /\ UNCHANGED <<exit_status, exit_at>>
            ELSE /\ main_pc' = "exited"
                 /\ exit_status' = 0
                 /\ exit_at' = "validate_ip_address"
                 /\ UNCHANGED <<requested_device_name_list, device_info_list>>
     ELSE /\ device_info_list' = read_info_list_file(inventory_file)
          /\ IF device_info_list' = <<>>
             THEN main_pc' = "exited" /\ exit_status' = 0 /\ exit_at' = "read_info_list_file"
             ELSE main_pc' = "get_requested_device_name_list" /\ UNCHANGED <<exit_status, exit_at>>
          /\ UNCHANGED requested_device_name_list
  /\ UNCHANGED <<program, DB_INTERFACE, SINGLE_PROCESS_MODE, arguments, inventory_file, history, db,
                 db_tables, timestamp, successful_device_name_list, failed_device_name_list,
                 process_pool, writes>>
  /\ UNCHANGED <<svars, xvars>>

\* main: the requested list; an empty one ends the run, an exception that
\* escapes the selection ends it with a traceback
GetRequestedDeviceNameList ==
  /\ main_pc = "get_requested_device_name_list"
  /\ LET r == get_requested_device_name_list(program, device_info_list, arguments.selector) IN
       IF r.raises # "None"
       THEN /\ main_pc' = "exited"
            /\ exit_status' = 1
            /\ exit_at' = "traceback"
            /\ UNCHANGED requested_device_name_list
       ELSE /\ requested_device_name_list' = sorted(r.list)
            /\ IF r.list = <<>>
               THEN main_pc' = "exited" /\ exit_status' = 0
                    /\ exit_at' = "get_requested_device_name_list"
               ELSE /\ main_pc' = IF program = "netcat_deploy" THEN "read_snippet_files"
                                  ELSE "execute_data_processing_function"
                    /\ UNCHANGED <<exit_status, exit_at>>
  /\ UNCHANGED <<program, DB_INTERFACE, SINGLE_PROCESS_MODE, arguments, inventory_file, history, db,
                 db_tables, timestamp, device_info_list, successful_device_name_list,
                 failed_device_name_list, process_pool, writes>>
  /\ UNCHANGED <<svars, xvars>>

\* deploy main: read_snippet_files returns no snippet when a snippet file is
\* unusable, and the operator may not confirm; either ends the run
ReadSnippetFiles ==
  /\ main_pc = "read_snippet_files"
  /\ \E snippet_usable \in BOOLEAN, confirmed \in BOOLEAN :
       IF ~snippet_usable
       THEN main_pc' = "exited" /\ exit_status' = 0 /\ exit_at' = "read_snippet_files"
       ELSE IF ~confirmed
       THEN main_pc' = "exited" /\ exit_status' = 0 /\ exit_at' = "confirm_deployment_validity"
       ELSE main_pc' = "execute_data_processing_function" /\ UNCHANGED <<exit_status, exit_at>>
  /\ UNCHANGED <<program, DB_INTERFACE, SINGLE_PROCESS_MODE, arguments, inventory_file, history, db,
                 db_tables, timestamp, device_info_list, requested_device_name_list,
                 successful_device_name_list, failed_device_name_list, process_pool, writes>>
  /\ UNCHANGED <<svars, xvars>>

\* execute_data_processing_function: one task per descriptor of data_list
Submit ==
  /\ main_pc = "execute_data_processing_function"
  /\ LET data_list == data_list_of(device_info_list, requested_device_name_list) IN
       process_pool' = [i \in DOMAIN data_list |-> Worker(data_list[i])]
  /\ main_pc' = "execute"
  /\ UNCHANGED <<program, DB_INTERFACE, SINGLE_PROCESS_MODE, arguments, inventory_file, history, db,
                 db_tables, timestamp, exit_status, exit_at, device_info_list, requested_device_name_list,
                 successful_device_name_list, failed_device_name_list, writes>>
  /\ UNCHANGED <<svars, xvars>>

\* a worker that raised: the future keeps the exception; in SINGLE_PROCESS_MODE
\* the task runs in main's list comprehension, so what escapes cli_process
\* (SystemExit, or the exception itself) leaves main as well
Fail(i, e, at_pc) ==
  /\ process_pool' = [process_pool EXCEPT ![i].pc = "raised", ![i].at = at_pc, ![i].raised = e,
                                          ![i].exception = netcat_exception_handler(e)]
  /\ IF SINGLE_PROCESS_MODE
     THEN main_pc' = "exited" /\ exit_status' = 1 /\ exit_at' = "cli_process"
     ELSE UNCHANGED <<main_pc, exit_status, exit_at>>

\* the tasks run side by side in the pool, one after the other in
\* SINGLE_PROCESS_MODE
CanRun(i) ==
  /\ main_pc = "execute"
  /\ i \in DOMAIN process_pool
  /\ SINGLE_PROCESS_MODE => \A j \in 1..(i - 1) : process_pool[j].pc = "returned"

Entry(table_name, document, result, i) ==
  [table_name |-> table_name, device_name |-> document.device_name,
   snapshot_timestamp |-> document.snapshot_timestamp, result |-> result, by |-> i]

\* backup cli_process: the task starts and get_device_data opens the session
\* and captures the catalog, or raises
cli_process_get_device_data(i) ==
  /\ program = "netcat_backup"
  /\ CanRun(i)
  /\ process_pool[i].pc = "queued"
  /\ LET type == process_pool[i].device_info.device_type IN
       \E outcome \in (IF HasAdapter(type) /\ ~AdapterOf(type).raises
                       THEN Profiles \cup {"CustomException"} ELSE {"CustomException"}) :
         IF outcome = "CustomException"
         THEN Fail(i, outcome, "get_device_data")
         ELSE /\ process_pool' = [process_pool EXCEPT
                   ![i].profile = outcome,
                   ![i].pc = IF arguments.test_run THEN "returned" ELSE "detect_config_change"]
              /\ UNCHANGED <<main_pc, exit_status, exit_at>>
  /\ UNCHANGED <<program, DB_INTERFACE, SINGLE_PROCESS_MODE, arguments, inventory_file, history, db,
                 db_tables, timestamp, device_info_list, requested_device_name_list,
                 successful_device_name_list, failed_device_name_list, writes>>
  /\ UNCHANGED <<svars, xvars>>

\* the exception load_latest_backup ends with when the store cannot be queried
load_fault(backend) == IF backend = "DynamoDB" THEN "ClientError" ELSE "CustomException"

\* backup cli_process: detect_config_change(device_data)
cli_process_detect_config_change(i) ==
  /\ program = "netcat_backup"
  /\ CanRun(i)
  /\ process_pool[i].pc = "detect_config_change"
  /\ \E answered \in (IF DB_INTERFACE = "FsDB" THEN {TRUE} ELSE BOOLEAN) :
       IF answered
       THEN LET w == process_pool[i]
                latest == load_latest_backup(DB_INTERFACE, db[DBT_BACKUP], w.device_info.device_name)
                config_change == detect_config_change(device_data_of(w.device_info, w.profile), latest)
            IN /\ process_pool' = [process_pool EXCEPT
                    ![i].previous_found = (DOMAIN latest # {}),
                    ![i].config_change = config_change,
                    ![i].pc = IF save_backup_wanted(config_change, arguments.force_backup)
                              THEN "save_backup" ELSE "save_info"]
               /\ UNCHANGED <<main_pc, exit_status, exit_at>>
       ELSE Fail(i, load_fault(DB_INTERFACE), "detect_config_change")
  /\ UNCHANGED <<program, DB_INTERFACE, SINGLE_PROCESS_MODE, arguments, inventory_file, history, db,
                 db_tables, timestamp, device_info_list, requested_device_name_list,
                 successful_device_name_list, failed_device_name_list, writes>>
  /\ UNCHANGED <<svars, xvars>>

\* save_device_data._(table_name): the document is built and db.write is called
save_device_data(i, table_name, next_pc) ==
  LET w == process_pool[i]
      document == Document(device_data_of(w.device_info, w.profile), timestamp, table_name)
      code_result == write_result(DB_INTERFACE, table_name)
  IN IF code_result # "stored"
     THEN /\ writes' = Append(writes, Entry(table_name, document, code_result, i))
          /\ Fail(i, code_result, w.pc)
          /\ UNCHANGED <<db, db_tables>>
     ELSE \E taken \in BOOLEAN :
            IF taken
            THEN /\ db' = [db EXCEPT ![table_name] = put(DB_INTERFACE, @, table_name, document)]
                 /\ db_tables' = db_tables \cup {table_name}
                 /\ writes' = Append(writes, Entry(table_name, document, "stored", i))
                 /\ process_pool' = [process_pool EXCEPT ![i].pc = next_pc]
                 /\ UNCHANGED <<main_pc, exit_status, exit_at>>
            ELSE /\ writes' = Append(writes, Entry(table_name, document, "fault", i))
                 /\ Fail(i, store_fault(DB_INTERFACE), w.pc)
                 /\ UNCHANGED <<db, db_tables>>

\* save_device_data: the backup table, when config_change or force_backup
save_device_data_backup(i) ==
  /\ program = "netcat_backup"
  /\ CanRun(i)
  /\ process_pool[i].pc = "save_backup"
  /\ save_device_data(i, DBT_BACKUP, "save_info")
  /\ UNCHANGED <<program, DB_INTERFACE, SINGLE_PROCESS_MODE, arguments, inventory_file, history,
                 timestamp, device_info_list, requested_device_name_list,
                 successful_device_name_list, failed_device_name_list>>
  /\ UNCHANGED <<svars, xvars>>

\* save_device_data: the info table; cli_process then returns [device_name]
save_device_data_info(i) ==
  /\ program = "netcat_backup"
  /\ CanRun(i)
  /\ process_pool[i].pc = "save_info"
  /\ save_device_data(i, DBT_INFO, "returned")
  /\ UNCHANGED <<program, DB_INTERFACE, SINGLE_PROCESS_MODE, arguments, inventory_file, history,
                 timestamp, device_info_list, requested_device_name_list,
                 successful_device_name_list, failed_device_name_list>>
  /\ UNCHANGED <<svars, xvars>>

\* what deploy_config_snippet / upgrade_software can end with on a device of a type
\*   paloalto: the operation returns, or a fault of the session or of the
\*     device raises CustomException
\*   upgrade, any other type: CustomException
\*   deploy, cisco_router / cisco_switch: CustomException from the session, or
\*     the TypeError of cli.deploy_config_snippet(snippet, no_commit)
\*   deploy, any other type: the message of the exception reads
\*     device_info['type'], a KeyError
operate_outcomes(prog, type) ==
  IF type = T_paloalto THEN {"returned", "CustomException"}
  ELSE IF prog = "netcat_upgrade" THEN {"CustomException"}
  ELSE IF type \in {T_cisco_router, T_cisco_switch} THEN {"CustomException", "TypeError"}
  ELSE {"KeyError"}

\* deploy / upgrade cli_process: deploy_config_snippet or upgrade_software
\* returns, or raises
cli_process_operate(i) ==
  /\ program \in {"netcat_deploy", "netcat_upgrade"}
  /\ CanRun(i)
  /\ process_pool[i].pc = "queued"
  /\ \E outcome \in operate_outcomes(program, process_pool[i].device_info.device_type) :
       IF outcome = "returned"
       THEN /\ process_pool' = [process_pool EXCEPT ![i].pc = "returned"]
            /\ UNCHANGED <<main_pc, exit_status, exit_at>>
       ELSE Fail(i, outcome, "operate")
  /\ UNCHANGED <<program, DB_INTERFACE, SINGLE_PROCESS_MODE, arguments, inventory_file, history, db,
                 db_tables, timestamp, device_info_list, requested_device_name_list,
                 successful_device_name_list, failed_device_name_list, writes>>
  /\ UNCHANGED <<svars, xvars>>

\* main: the pool is done; the successful and the failed list
Collect ==
  /\ main_pc = "execute"
  /\ \A i \in DOMAIN process_pool : Finished(process_pool[i])
  /\ successful_device_name_list' = sorted(results_of(process_pool))
  /\ failed_device_name_list' = failed_list(requested_device_name_list, successful_device_name_list')
  /\ main_pc' = IF program = "netcat_backup" /\ ~arguments.test_run
                THEN "save_final_status" ELSE "report_final_status"
  /\ UNCHANGED <<program, DB_INTERFACE, SINGLE_PROCESS_MODE, arguments, inventory_file, history, db,
                 db_tables, timestamp, exit_status, exit_at, device_info_list, requested_device_name_list,
                 process_pool, writes>>
  /\ UNCHANGED <<svars, xvars>>

\* save_final_status: the status document is written by main
save_final_status ==
  /\ main_pc = "save_final_status"
  /\ LET document == status_document(device_info_list, timestamp, successful_device_name_list,
                                     failed_device_name_list)
         code_result == write_result(DB_INTERFACE, DBT_STATUS)
         entry(result) == [table_name |-> DBT_STATUS, device_name |-> <<>>,
                           snapshot_timestamp |-> timestamp, result |-> result, by |-> 0]
     IN IF code_result # "stored"
        THEN /\ writes' = Append(writes, entry(code_result))
             /\ main_pc' = "exited"
             /\ exit_status' = 1
             /\ exit_at' = "save_final_status"
             /\ UNCHANGED <<db, db_tables>>
        ELSE \E taken \in BOOLEAN :
               IF taken
               THEN /\ db' = [db EXCEPT ![DBT_STATUS] = put(DB_INTERFACE, @, DBT_STATUS, document)]
                    /\ db_tables' = db_tables \cup {DBT_STATUS}
                    /\ writes' = Append(writes, entry("stored"))
                    /\ main_pc' = "report_final_status"
                    /\ UNCHANGED <<exit_status, exit_at>>
               ELSE /\ writes' = Append(writes, entry("fault"))
                    /\ main_pc' = "exited"
                    /\ exit_status' = 1
                    /\ exit_at' = "save_final_status"
                    /\ UNCHANGED <<db, db_tables>>
  /\ UNCHANGED <<program, DB_INTERFACE, SINGLE_PROCESS_MODE, arguments, inventory_file, history,
                 timestamp, device_info_list, requested_device_name_list,
                 successful_device_name_list, failed_device_name_list, process_pool>>
  /\ UNCHANGED <<svars, xvars>>

\* report_final_status, and main returns 0
report_final_status ==
  /\ main_pc = "report_final_status"
  /\ main_pc' = "returned"
  /\ exit_status' = 0
  /\ exit_at' = "return"
  /\ UNCHANGED <<program, DB_INTERFACE, SINGLE_PROCESS_MODE, arguments, inventory_file, history, db,
                 db_tables, timestamp, device_info_list, requested_device_name_list,
                 successful_device_name_list, failed_device_name_list, process_pool, writes>>
  /\ UNCHANGED <<svars, xvars>>

\* the most tasks a run of the model submits
MaxTasks == 2

Next ==
  \/ create_tables
  \/ ReadInfoListFile
  \/ GetRequestedDeviceNameList
  \/ ReadSnippetFiles
  \/ Submit
  \/ \E i \in 1..MaxTasks : cli_process_get_device_data(i)
  \/ \E i \in 1..MaxTasks : cli_process_detect_config_change(i)
  \/ \E i \in 1..MaxTasks : save_device_data_backup(i)
  \/ \E i \in 1..MaxTasks : save_device_data_info(i)
  \/ \E i \in 1..MaxTasks : cli_process_operate(i)
  \/ Collect
  \/ save_final_status
  \/ report_final_status

Spec == Init /\ [][Next]_vars

\* ------------------------------------------------------------------------
\* One application of compare_command_outputs to two command outputs
\* ------------------------------------------------------------------------

\* the lines the compared outputs are made of: stable lines, lines that carry
\* an exclusion, lines that carry part of one, and the empty line
CompareLines ==
  { <<"ip", "route", "a">>, <<"ip", "route", "b">>,
    <<"!Time:", "Mon">>, <<"!Time:", "Tue">>,
    <<"eth0", "state", "up">>, <<"eth0", "state", "down">>,
    <<"no", "ip", "domain-lookup">>, <<"ip", "domain-lookup">>, <<>> }

\* outputs of one and of two lines
CompareTexts ==
  CompareLines \cup { first \o <<NL>> \o second : first \in CompareLines, second \in CompareLines }

CompareInit ==
  /\ call \in { [function |-> "compare_command_outputs", output_a |-> a, output_b |-> b] :
                  a \in CompareTexts, b \in CompareTexts }
  /\ ret = <<>>
  /\ SessionIdle
  /\ JobIdle
  /\ WIdle
  /\ PIdle
  /\ UIdle
  /\ DIdle

\* detect_config_change: compare_command_outputs(output_a, output_b) returns
ApplyCompare ==
  /\ call.function = "compare_command_outputs"
  /\ ret = <<>>
  /\ ret' = <<compare_command_outputs(call.output_a, call.output_b)>>
  /\ UNCHANGED <<call, svars, jvars, wvars, pvars, uvars, dvars>>

SpecCompare == CompareInit /\ [][ApplyCompare]_vars

\* ------------------------------------------------------------------------
\* One application of detect_config_change to a snapshot and the latest backup
\* ------------------------------------------------------------------------

\* "\n".join(lines)
RECURSIVE join(_)
join(lines) ==
  IF lines = <<>> THEN <<>>
  ELSE IF Len(lines) = 1 THEN lines[1]
  ELSE lines[1] \o <<NL>> \o join(Tail(lines))

\* a capture without the line break at its end
capture_without_newline(lines) == join(lines)

\* NetCatCliAccess.get_device_data: the capture of a command, from the lines
\* of its output between output_start and output_end
capture(lines) == join(lines) \o <<NL>>

\* the lines a slice of an output holds: none, a volatile line, a stable line
DetectSlices ==
  { <<>>, << <<"!Time:", "Mon">> >>, << <<"ip", "route", "a">> >> }

DetectCaptures == { capture(lines) : lines \in DetectSlices }

F_backup_running == <<"b","a","c","k","u","p","_","r","u","n","n","i","n","g">>
F_backup_startup == <<"b","a","c","k","u","p","_","s","t","a","r","t","u","p">>
F_info == <<"i","n","f","o">>

\* the commands of the formats
DetectCommands(format_name) ==
  IF format_name = F_backup_running THEN {"show a", "show b"} ELSE {"show a"}

\* the sections of a format: captures of some of its commands, at least one
DetectSections(format_name) ==
  UNION { [commands -> DetectCaptures] : commands \in (SUBSET DetectCommands(format_name)) \ {{}} }

\* output_formats of a snapshot or of a stored backup: some of the formats,
\* each with a section
DetectFormats ==
  UNION { { formats \in [names -> UNION { DetectSections(n) : n \in names }] :
              \A n \in names : formats[n] \in DetectSections(n) } :
          names \in SUBSET {F_backup_running, F_backup_startup, F_info} }

DetectDeviceData(formats) ==
  [snapshot_timestamp |-> 0, device_name |-> R1, device_type |-> T_cisco_router, output_formats |-> formats]

DetectInit ==
  /\ call \in { [function |-> "detect_config_change", device_data |-> DetectDeviceData(current), latest |-> latest] :
                  current \in DetectFormats,
                  latest \in {EmptyDict} \cup { DetectDeviceData(previous) : previous \in DetectFormats } }
  /\ ret = <<>>
  /\ SessionIdle
  /\ JobIdle
  /\ WIdle
  /\ PIdle
  /\ UIdle
  /\ DIdle

\* cli_process: detect_config_change(device_data) returns
ApplyDetectConfigChange ==
  /\ call.function = "detect_config_change"
  /\ ret = <<>>
  /\ ret' = <<detect_config_change(call.device_data, call.latest)>>
  /\ UNCHANGED <<call, svars, jvars, wvars, pvars, uvars, dvars>>

SpecDetect == DetectInit /\ [][ApplyDetectConfigChange]_vars

\* ------------------------------------------------------------------------
\* One application of the artifact codec: encode_command and decode_command to
\* two command names, compress_device_data and decompress_device_data to a
\* snapshot
\* ------------------------------------------------------------------------

\* the characters of the names and outputs: "0", "1", "a", "g" (one byte each;
\* the digits are the ones encode_command translates, "g" is what it makes of
\* "1"), e-acute (two bytes), the euro sign (three) and an emoji (four)
CodePoints == {48, 49, 97, 103, 233, 8364, 128512}

MaxNameLen == 2

RECURSIVE StringsOf(_)
StringsOf(n) == IF n = 0 THEN {<<>>} ELSE StringsOf(n - 1) \cup {Append(s, c) : s \in StringsOf(n - 1), c \in CodePoints}

CommandNames == {<<49>>, <<103>>, <<97, 233>>}
CommandOutputs == {<<>>, <<49, 48>>, <<8364, 128512>>}

FormatData == UNION {[names -> CommandOutputs] : names \in SUBSET CommandNames}

Snapshots ==
  { [snapshot_timestamp |-> 0, device_name |-> "r1", device_type |-> T_paloalto, output_formats |-> formats] :
      formats \in UNION {[names -> FormatData] :
                           names \in SUBSET {<<"i","n","f","o">>, <<"b","a","c","k","u","p","_","s","e","t">>}} }

CodecInit ==
  /\ \/ call \in { [function |-> "encode_command", args |-> <<a, b>>] :
                     a \in StringsOf(MaxNameLen), b \in StringsOf(MaxNameLen) }
     \/ call \in { [function |-> "compress_device_data", args |-> <<d>>] : d \in Snapshots \cup {EmptyDict} }
  /\ ret = <<>>
  /\ SessionIdle
  /\ JobIdle
  /\ WIdle
  /\ PIdle
  /\ UIdle
  /\ DIdle

\* compress_device_data: encode_command(command_name) of each name in turn
ApplyEncode ==
  /\ call.function = "encode_command"
  /\ Len(ret) < 2
  /\ ret' = Append(ret, encode_command(call.args[Len(ret) + 1]))
  /\ UNCHANGED <<call, svars, jvars, wvars, pvars, uvars, dvars>>

\* decompress_device_data: decode_command of the stored key of the first name
ApplyDecode ==
  /\ call.function = "encode_command"
  /\ Len(ret) = 2
  /\ ret' = Append(ret, decode_command(ret[1]))
  /\ UNCHANGED <<call, svars, jvars, wvars, pvars, uvars, dvars>>

\* db.write: compress_device_data(document)
ApplyCompress ==
  /\ call.function = "compress_device_data"
  /\ ret = <<>>
  /\ ret' = <<compress_device_data(call.args[1])>>
  /\ UNCHANGED <<call, svars, jvars, wvars, pvars, uvars, dvars>>

\* db.load_latest_backup: decompress_device_data of the stored document
ApplyDecompress ==
  /\ call.function = "compress_device_data"
  /\ Len(ret) = 1
  /\ ret' = Append(ret, decompress_device_data(ret[1]))
  /\ UNCHANGED <<call, svars, jvars, wvars, pvars, uvars, dvars>>

CodecNext == ApplyEncode \/ ApplyDecode \/ ApplyCompress \/ ApplyDecompress

SpecCodec == CodecInit /\ [][CodecNext]_vars

\* ------------------------------------------------------------------------
\* One use of a storage adapter: create_tables called again and again on a
\* store, load_latest_backup on a backup table
\* ------------------------------------------------------------------------

\* how many backup documents were written to the table, and how often
\* create_tables is called
MaxStored == 2
MaxCalls == 3

\* the db.write(DBT_BACKUP, ...) calls that filled the backup table
BackupWrites ==
  { [device_info |-> d, snapshot_timestamp |-> t, profile |-> p] :
      d \in {Device(R1, T_cisco_router), Device(P1, T_paloalto)}, t \in 1..2, p \in {"base", "changed"} }

RECURSIVE WriteSequences(_)
WriteSequences(n) ==
  IF n = 0 THEN {<<>>}
  ELSE WriteSequences(n - 1) \cup {Append(ws, w) : ws \in WriteSequences(n - 1), w \in BackupWrites}

\* the backup table after the writes of ws
RECURSIVE BackupTable(_, _)
BackupTable(backend, ws) ==
  IF ws = <<>> THEN <<>>
  ELSE LET w == ws[Len(ws)] IN
       put(backend, BackupTable(backend, SubSeq(ws, 1, Len(ws) - 1)), DBT_BACKUP,
           Document(device_data_of(w.device_info, w.profile), w.snapshot_timestamp, DBT_BACKUP))

StoreInit ==
  /\ \/ call \in { [function |-> "create_tables", backend |-> b, tables |-> existing] :
                     b \in Backends, existing \in SUBSET Tables }
     \/ call \in { [function |-> "load_latest_backup", backend |-> b, contents |-> BackupTable(b, ws),
                    device_name |-> n] :
                     b \in Backends, ws \in WriteSequences(MaxStored), n \in {R1, P1} }
  /\ ret = <<>>
  /\ SessionIdle
  /\ JobIdle
  /\ WIdle
  /\ PIdle
  /\ UIdle
  /\ DIdle

\* db.create_tables(), on the store the previous call left
ApplyCreateTables ==
  /\ call.function = "create_tables"
  /\ Len(ret) < MaxCalls
  /\ ret' = Append(ret, tables_after_create_tables(call.backend, IF ret = <<>> THEN call.tables ELSE ret[Len(ret)]))
  /\ UNCHANGED <<call, svars, jvars, wvars, pvars, uvars, dvars>>

\* db.load_latest_backup(device_name)
ApplyLoadLatestBackup ==
  /\ call.function = "load_latest_backup"
  /\ ret = <<>>
  /\ ret' = <<load_latest_backup(call.backend, call.contents, call.device_name)>>
  /\ UNCHANGED <<call, svars, jvars, wvars, pvars, uvars, dvars>>

StoreNext == ApplyCreateTables \/ ApplyLoadLatestBackup

SpecStore == StoreInit /\ [][StoreNext]_vars


\* ------------------------------------------------------------------------
\* One call of save_device_data on the snapshot of a device of each type
\* ------------------------------------------------------------------------

\* save_device_data: the db.write calls it makes, in order
save_device_data_writes(device_data, stamp, config_change, force_backup) ==
  (IF save_backup_wanted(config_change, force_backup)
   THEN << [table_name |-> DBT_BACKUP, document |-> Document(device_data, stamp, DBT_BACKUP)] >>
   ELSE <<>>)
  \o << [table_name |-> DBT_INFO, document |-> Document(device_data, stamp, DBT_INFO)] >>

SaveInit ==
  /\ call \in { [function |-> "save_device_data", device_data |-> device_data_of(Device(R1, type), p),
                 timestamp |-> 1, config_change |-> c, force_backup |-> f] :
                  type \in SUPPORTED_DEVICE_TYPES, p \in Profiles, c \in BOOLEAN, f \in BOOLEAN }
  /\ ret = <<>>
  /\ SessionIdle
  /\ JobIdle
  /\ WIdle
  /\ PIdle
  /\ UIdle
  /\ DIdle

ApplySaveDeviceData ==
  /\ call.function = "save_device_data"
  /\ ret = <<>>
  /\ ret' = << save_device_data_writes(call.device_data, call.timestamp, call.config_change, call.force_backup) >>
  /\ UNCHANGED <<call, svars, jvars, wvars, pvars, uvars, dvars>>

SaveNext == ApplySaveDeviceData

SpecSave == SaveInit /\ [][SaveNext]_vars
\* ------------------------------------------------------------------------
\* One call of db.write(table_name, document) in netcat_dynamodb and in
\* netcat_mongodb
\* ------------------------------------------------------------------------

\* write(table_name, document, max_attempts=15, max_sleep_time=10)
max_attempts == 15
max_sleep_time == 10

\* uniform(0.1, max_sleep_time), in tenths of a second: the two ends of the range
SleepTimes == {1, max_sleep_time * 10}

\* how one put_item / insert_one ends: the document is stored; the store
\* throttles (ProvisionedThroughputExceededException or ThrottlingException
\* with DynamoDB, WriteError with MongoDB); the store refuses with another error
PutOutcomes == {"stored", "throttled", "refused"}

WriteModules == {"netcat_dynamodb", "netcat_mongodb"}

WriteInit ==
  /\ call \in { [function |-> "write", module |-> m] : m \in WriteModules }
  /\ ret = <<>>
  /\ attempts = max_attempts
  /\ puts = <<>>
  /\ sleep_times = <<>>
  /\ raised = "None"
  /\ SessionIdle
  /\ JobIdle
  /\ PIdle
  /\ UIdle
  /\ DIdle

WriteRunning == call.function = "write" /\ ret = <<>> /\ raised = "None"

\* netcat_dynamodb.write: one pass of the while loop; when no attempt is left
\* the else clause of the loop raises
dynamodb_write_attempt ==
  /\ WriteRunning
  /\ call.module = "netcat_dynamodb"
  /\ attempts > 0
  /\ \E outcome \in PutOutcomes :
       /\ puts' = Append(puts, outcome)
       /\ CASE outcome = "stored" ->
                 /\ ret' = <<"None">>
                 /\ UNCHANGED <<attempts, sleep_times, raised>>
            [] outcome = "refused" ->
                 /\ raised' = "CustomException"
                 /\ UNCHANGED <<ret, attempts, sleep_times>>
            [] outcome = "throttled" ->
                 \E sleep_time \in SleepTimes :
                   /\ attempts' = attempts - 1
                   /\ sleep_times' = Append(sleep_times, sleep_time)
                   /\ raised' = IF attempts' = 0 THEN "CustomException" ELSE raised
                   /\ ret' = ret
  /\ UNCHANGED <<call, svars, jvars, pvars, uvars, dvars>>

\* netcat_mongodb.write: one pass of the while loop; the handler of WriteError
\* names random and time, the handler of PyMongoError names CustomException,
\* and the module imports none of them
mongodb_write_attempt ==
  /\ WriteRunning
  /\ call.module = "netcat_mongodb"
  /\ attempts > 0
  /\ \E outcome \in PutOutcomes :
       /\ puts' = Append(puts, outcome)
       /\ IF outcome = "stored"
          THEN ret' = <<"None">> /\ raised' = raised
          ELSE ret' = ret /\ raised' = "NameError"
       /\ UNCHANGED <<attempts, sleep_times>>
  /\ UNCHANGED <<call, svars, jvars, pvars, uvars, dvars>>

WriteNext == dynamodb_write_attempt \/ mongodb_write_attempt

SpecWrite == WriteInit /\ [][WriteNext]_vars

\* ------------------------------------------------------------------------
\* Palo Alto: PACliAccess.deploy_config_snippet and what it calls.  Snippets,
\* prompts, commands and command outputs are sequences of characters and "\n"
\* ------------------------------------------------------------------------

UPPERCASE == <<"A", "B", "C", "D", "E", "F", "G", "H", "I", "J", "K", "L", "M", "N", "O", "P", "Q", "R", "S", "T", "U", "V", "W", "X", "Y", "Z">>
LOWERCASE == <<"a", "b", "c", "d", "e", "f", "g", "h", "i", "j", "k", "l", "m", "n", "o", "p", "q", "r", "s", "t", "u", "v", "w", "x", "y", "z">>

\* str.lower()
lower(s) ==
  [i \in DOMAIN s |->
     IF \E k \in DOMAIN UPPERCASE : UPPERCASE[k] = s[i]
     THEN LOWERCASE[CHOOSE k \in DOMAIN UPPERCASE : UPPERCASE[k] = s[i]]
     ELSE s[i]]

Whitespace == {" ", "\t", "\r", NL}

\* str.lstrip(), str.rstrip(), str.strip()
RECURSIVE lstrip(_)
lstrip(s) == IF s # <<>> /\ s[1] \in Whitespace THEN lstrip(Tail(s)) ELSE s

RECURSIVE rstrip(_)
rstrip(s) == IF s # <<>> /\ s[Len(s)] \in Whitespace THEN rstrip(SubSeq(s, 1, Len(s) - 1)) ELSE s

strip(s) == rstrip(lstrip(s))

\* lines[first:-2] of a list: Python clamps the slice to the list
SliceMiddle(lines, first, dropped) ==
  IF Len(lines) - dropped < first + 1 THEN <<>> ELSE SubSeq(lines, first + 1, Len(lines) - dropped)

\* "# Expected HA state: "
HA_STATE_HEADER == <<"#", " ", "E", "x", "p", "e", "c", "t", "e", "d", " ", "H", "A", " ", "s", "t", "a", "t", "e", ":", " ">>

\* the roles cli_prompt accepts between the brackets of the prompt
HA_STATES ==
  { <<"a", "c", "t", "i", "v", "e", "-", "p", "r", "i", "m", "a", "r", "y">>,
    <<"a", "c", "t", "i", "v", "e", "-", "s", "e", "c", "o", "n", "d", "a", "r", "y">>,
    <<"a", "c", "t", "i", "v", "e">>,
    <<"p", "a", "s", "s", "i", "v", "e">>,
    <<"n", "o", "n", "-", "f", "u", "n", "c", "t", "i", "o", "n", "a", "l">>,
    <<"s", "u", "s", "p", "e", "n", "d", "e", "d">>,
    <<>> }

ACTIVE == <<"a", "c", "t", "i", "v", "e">>

\* validate_ha_state: the expected state, from the first line that holds the
\* header, else "active"
expected_ha_state_of(snippet_text) ==
  LET lines == Split(snippet_text)
      holds == { i \in DOMAIN lines : Find(lines[i], HA_STATE_HEADER) }
  IN IF holds = {} THEN ACTIVE
     ELSE LET first == CHOOSE i \in holds : \A j \in holds : i <= j
          IN lower(strip(SliceFrom(lines[first], 20)))

\* a match that stops after the state
PromptBeginsWith(tail, state) ==
  \E open \in {<<>>, <<"(">>} : StartsWith(tail, open \o state)

\* the text after "username@NAME" matches  \(?(state)\)?[#>]<space>
PromptMatches(tail, state) ==
  \E open \in {<<>>, <<"(">>}, close \in {<<>>, <<")">>}, mode \in {"#", ">"} :
    tail = open \o state \o close \o <<mode, " ">>

\* the text after "username@NAME" matches self.cli_prompt
CliPromptMatches(tail) == \E state \in HA_STATES : PromptMatches(tail, state)

\* a test every line passes
every_line_sent(line) == line = line

\* deploy_config_snippet: the test a snippet line passes to be sent
\*   line and line[0].lstrip() != "#"
snippet_line_sent(line) == line # <<>> /\ lstrip(<<line[1]>>) # <<"#">>

\* deploy_config_snippet: command_output.split("\n")[3:-2]
commit_output_of(captured) == SliceMiddle(Split(captured), 3, 2)

ERROR == <<"e", "r", "r", "o", "r">>

\* deploy_config_snippet: commit_validation_error after the scan of commit_output
commit_validation_error_of(captured) ==
  LET commit_output == commit_output_of(captured) IN
    \E i \in DOMAIN commit_output : Find(lower(commit_output[i]), ERROR)

\* the commands of deploy_config_snippet
\* ""
CMD_EMPTY == <<>>
\* "show jobs processed"
CMD_SHOW_JOBS == <<"s", "h", "o", "w", " ", "j", "o", "b", "s", " ", "p", "r", "o", "c", "e", "s", "s", "e", "d">>
\* "configure"
CMD_CONFIGURE == <<"c", "o", "n", "f", "i", "g", "u", "r", "e">>
\* "exit"
CMD_EXIT == <<"e", "x", "i", "t">>
\* "commit"
CMD_COMMIT == <<"c", "o", "m", "m", "i", "t">>
\* "n"
CMD_N == <<"n">>
\* "request high-availability sync-to-remote running-config"
CMD_SYNC == <<"r", "e", "q", "u", "e", "s", "t", " ", "h", "i", "g", "h", "-", "a", "v", "a", "i", "l", "a", "b", "i", "l", "i", "t", "y", " ", "s", "y", "n", "c", "-", "t", "o", "-", "r", "e", "m", "o", "t", "e", " ", "r", "u", "n", "n", "i", "n", "g", "-", "c", "o", "n", "f", "i", "g">>
\* "revert config"
CMD_REVERT == <<"r", "e", "v", "e", "r", "t", " ", "c", "o", "n", "f", "i", "g">>

\* the snippets deployed: read_snippet_files ends every file with two line breaks
Snippets ==
  { \* a snippet without header
    <<"s", "e", "t", " ", "a">> \o <<NL>> \o <<"s", "e", "t", " ", "b">> \o <<NL>> \o <<>> \o <<NL>> \o <<>>,
    \* a header, a comment, commands and blank lines
    <<"#", " ", "E", "x", "p", "e", "c", "t", "e", "d", " ", "H", "A", " ", "s", "t", "a", "t", "e", ":", " ", "p", "a", "s", "s", "i", "v", "e">> \o <<NL>> \o <<"#", " ", "n", "o", "t", "e">> \o <<NL>> \o <<"s", "e", "t", " ", "a">> \o <<NL>> \o <<>> \o <<NL>> \o <<"s", "e", "t", " ", "b">> \o <<NL>> \o <<>> \o <<NL>> \o <<>>,
    \* a header in capitals with spaces around the state
    <<"#", " ", "E", "x", "p", "e", "c", "t", "e", "d", " ", "H", "A", " ", "s", "t", "a", "t", "e", ":", " ", " ", "A", "c", "t", "i", "v", "e", "-", "P", "r", "i", "m", "a", "r", "y", " ">> \o <<NL>> \o <<"s", "e", "t", " ", "b">> \o <<NL>> \o <<"s", "e", "t", " ", "a">> \o <<NL>> \o <<>> \o <<NL>> \o <<>>,
    \* two headers
    <<"#", " ", "E", "x", "p", "e", "c", "t", "e", "d", " ", "H", "A", " ", "s", "t", "a", "t", "e", ":", " ", "p", "a", "s", "s", "i", "v", "e">> \o <<NL>> \o <<"#", " ", "E", "x", "p", "e", "c", "t", "e", "d", " ", "H", "A", " ", "s", "t", "a", "t", "e", ":", " ", "a", "c", "t", "i", "v", "e">> \o <<NL>> \o <<"s", "e", "t", " ", "a">> \o <<NL>> \o <<>> \o <<NL>> \o <<>>,
    \* comments only
    <<"#", " ", "n", "o", "t", "e">> \o <<NL>> \o <<"#", " ", "n", "o", "t", "e">> \o <<NL>> \o <<>> \o <<NL>> \o <<>>,
    \* a line of one space
    <<" ">> \o <<NL>> \o <<"s", "e", "t", " ", "a">> \o <<NL>> \o <<>> \o <<NL>> \o <<>>,
    \* an indented comment
    <<" ", " ", "#", " ", "n", "o", "t", "e">> \o <<NL>> \o <<"s", "e", "t", " ", "a">> \o <<NL>> \o <<>> \o <<NL>> \o <<>>,
    \* an indented header
    <<" ", " ", "#", " ", "E", "x", "p", "e", "c", "t", "e", "d", " ", "H", "A", " ", "s", "t", "a", "t", "e", ":", " ", "p", "a", "s", "s", "i", "v", "e">> \o <<NL>> \o <<"s", "e", "t", " ", "a">> \o <<NL>> \o <<>> \o <<NL>> \o <<>> }

\* what the device prints after "username@NAME" in answer to an empty line
HaPrompts ==
  { (IF state = <<>> THEN <<>> ELSE <<"(">> \o state \o <<")">>) \o <<">", " ">> : state \in HA_STATES }

\* the text captured before the prompt that ends a commit: 3, 6 or 7 lines,
\* at most one of which is not "ok"
CommitLines == { <<"o", "k">>, <<"E", "r", "r", "o", "r", ":">>, <<"x", " ", "E", "R", "R", "O", "R">>, <<"e", "r", "r", "o">> }

RECURSIVE Join(_)
Join(lines) == IF Len(lines) = 1 THEN lines[1] ELSE lines[1] \o <<NL>> \o Join(Tail(lines))

CommitOutputs ==
  { Join([i \in 1..n |-> IF i = p THEN special ELSE <<"o", "k">>]) :
      n \in {3, 6, 7}, p \in 0..7, special \in CommitLines }

\* ------------------------------------------------------------------------
\* The CLI prompt patterns of the adapters and pexpect's search for them
\* ------------------------------------------------------------------------

\* str.upper()
upper(s) ==
  [i \in DOMAIN s |->
     IF \E k \in DOMAIN LOWERCASE : LOWERCASE[k] = s[i]
     THEN UPPERCASE[CHOOSE k \in DOMAIN LOWERCASE : LOWERCASE[k] = s[i]]
     ELSE s[i]]

\* the regular expressions the patterns are made of
Lit(c) == [k |-> "lit", c |-> c]
AnyChar == [k |-> "any"]
Class(cs) == [k |-> "class", cs |-> cs]
Cat(ps) == [k |-> "cat", ps |-> ps]
Alt(ps) == [k |-> "alt", ps |-> ps]
Opt(r) == [k |-> "opt", r |-> r]
Star(r) == [k |-> "star", r |-> r]
Text(s) == Cat([i \in DOMAIN s |-> Lit(s[i])])

\* re: the positions a match of r can end before, when it starts at one of from
RECURSIVE Ends(_, _, _)
Ends(r, text, from) ==
  CASE r.k = "lit" -> {i + 1 : i \in {j \in from : j =< Len(text) /\ text[j] = r.c}}
    [] r.k = "any" -> {i + 1 : i \in {j \in from : j =< Len(text) /\ text[j] # NL}}
    [] r.k = "class" -> {i + 1 : i \in {j \in from : j =< Len(text) /\ text[j] \in r.cs}}
    [] r.k = "cat" -> IF r.ps = <<>> THEN from ELSE Ends(Cat(Tail(r.ps)), text, Ends(Head(r.ps), text, from))
    [] r.k = "alt" -> UNION {Ends(r.ps[i], text, from) : i \in DOMAIN r.ps}
    [] r.k = "opt" -> from \cup Ends(r.r, text, from)
    [] OTHER -> LET more == Ends(r.r, text, from) IN
                  IF more \subseteq from THEN from ELSE Ends(r, text, from \cup more)

\* pexpect.expect(pattern): re.search, a match that may start anywhere
search(r, text) == \E i \in 1..(Len(text) + 1) : Ends(r, text, {i}) # {}

\* a name put into a pattern as it is: "." is any character, a letter, a digit
\* or "-" is itself
Interpolated(s) == Cat([i \in DOMAIN s |-> IF s[i] = "." THEN AnyChar ELSE Lit(s[i])])

WordChars == {UPPERCASE[i] : i \in DOMAIN UPPERCASE} \cup {LOWERCASE[i] : i \in DOMAIN LOWERCASE}
               \cup {"0", "1", "2", "3", "4", "5", "6", "7", "8", "9", "_"}

\* self.cli_prompt of CiscoCliAccess, PACliAccess and F5CliAccess
cli_prompt(type, username, name) ==
  CASE type = T_cisco_nexus ->
         Cat(<<Interpolated(upper(name)), Opt(Cat(<<Text(<<"(", "c", "o", "n", "f">>), Star(AnyChar), Lit(")")>>)), Text(<<"#", " ">>)>>)
    [] type \in {T_cisco_router, T_cisco_switch} ->
         Cat(<<Interpolated(upper(name)), Opt(Cat(<<Text(<<"(", "c", "o", "n", "f">>), Star(AnyChar), Lit(")")>>)), Text(<<"#">>)>>)
    [] type = T_cisco_asa ->
         Cat(<<Interpolated(upper(name)), Opt(Text(<<"(", "c", "o", "n", "f", "i", "g", ")">>)), Text(<<"#", " ">>)>>)
    [] type = T_cisco_asa_mc ->
         Cat(<<Text(<<"V", "F">>), Alt(<<Lit("1"), Lit("2")>>), Text(<<"F", "W", "1", "/">>),
               Alt(<<Text(<<"p", "r", "i">>), Text(<<"s", "e", "c">>)>>), Text(<<"/", "a", "c", "t">>), Opt(Lit("/")),
               Star(Class({UPPERCASE[i] : i \in DOMAIN UPPERCASE})), Opt(Text(<<"(", "c", "o", "n", "f", "i", "g", ")">>)), Text(<<"#", " ">>)>>)
    [] type = T_paloalto ->
         Cat(<<Interpolated(username), Lit("@"), Interpolated(upper(name)), Opt(Lit("(")),
               Alt(<<Text(<<"a", "c", "t", "i", "v", "e", "-", "p", "r", "i", "m", "a", "r", "y">>), Text(<<"a", "c", "t", "i", "v", "e", "-", "s", "e", "c", "o", "n", "d", "a", "r", "y">>), Text(<<"a", "c", "t", "i", "v", "e">>), Text(<<"p", "a", "s", "s", "i", "v", "e">>), Text(<<"n", "o", "n", "-", "f", "u", "n", "c", "t", "i", "o", "n", "a", "l">>), Text(<<"s", "u", "s", "p", "e", "n", "d", "e", "d">>), Text(<<>>)>>),
               Opt(Lit(")")), Class({"#", ">"}), Lit(" ")>>)
    [] OTHER ->
         Cat(<<Interpolated(username), Text(<<"@", "(">>), Interpolated(upper(name)), Text(<<")", "(", "c", "f", "g", "-", "s", "y", "n", "c", " ">>),
               Class(WordChars \cup {",", " ", "\t"}), Star(Class(WordChars \cup {",", " ", "\t"})),
               Text(<<")", "(">>), Alt(<<Text(<<"A", "c", "t", "i", "v", "e">>), Text(<<"S", "t", "a", "n", "d", "b", "y">>)>>), Text(<<")", "(", "/", "C", "o", "m", "m", "o", "n", ")", "(", "t", "m", "o", "s", ")", "#", " ">>)>>)

\* what a device of a name prints as its prompt, in and out of configuration
\* mode: the name in capitals in the frame of its type
DevicePrompt(type, username, name, config) ==
  LET suffix == IF config THEN <<"(", "c", "o", "n", "f", "i", "g", ")">> ELSE <<>> IN
  CASE type \in {T_cisco_nexus, T_cisco_asa} -> upper(name) \o suffix \o <<"#", " ">>
    [] type \in {T_cisco_router, T_cisco_switch} -> upper(name) \o suffix \o <<"#">>
    [] type = T_cisco_asa_mc -> upper(name) \o <<"/", "p", "r", "i", "/", "a", "c", "t">> \o suffix \o <<"#", " ">>
    [] type = T_paloalto ->
         username \o <<"@">> \o upper(name) \o <<"(", "a", "c", "t", "i", "v", "e", ")">> \o (IF config THEN <<"#", " ">> ELSE <<">", " ">>)
    [] OTHER ->
         username \o <<"@", "(">> \o upper(name) \o <<")", "(", "c", "f", "g", "-", "s", "y", "n", "c", " ", "I", "n", " ", "S", "y", "n", "c", ")", "(", "A", "c", "t", "i", "v", "e">> \o <<")", "(", "/", "C", "o", "m", "m", "o", "n", ")", "(", "t", "m", "o", "s", ")", "#", " ">>

USERNAME == <<"a", "d", "m", "i", "n">>
PromptNames == { <<"r", "1">>, <<"x", "r", "1">>, <<"r", ".", "1">>, <<"r", "x", "1">>, <<"v", "f", "1", "f", "w", "1">>, <<"v", "f", "2", "f", "w", "1">> }

PromptInit ==
  /\ call \in { [function |-> "expect", device_type |-> type, device_name |-> own, of |-> shown,
                 text |-> DevicePrompt(type, USERNAME, shown, config)] :
                  type \in SUPPORTED_DEVICE_TYPES, own \in PromptNames, shown \in PromptNames,
                  config \in BOOLEAN }
  /\ ret = <<>>
  /\ SessionIdle
  /\ JobIdle
  /\ WIdle
  /\ PIdle
  /\ UIdle
  /\ DIdle

\* self.cli.expect(self.cli_prompt) on what the device printed
ApplyExpect ==
  /\ call.function = "expect"
  /\ ret = <<>>
  /\ ret' = << search(cli_prompt(call.device_type, USERNAME, call.device_name), call.text) >>
  /\ UNCHANGED <<call, svars, jvars, wvars, pvars, uvars, dvars>>

PromptNext == ApplyExpect

SpecPrompt == PromptInit /\ [][PromptNext]_vars
\* ------------------------------------------------------------------------
\* PACliAccess.deploy_config_snippet(snippet, no_commit) on an open session
\* ------------------------------------------------------------------------

Sent(command, by) ==
  [ev |-> "sendline", command |-> command, seconds |-> 0, got |-> "", by |-> by]
Expected(got, by) ==
  [ev |-> "expect", command |-> <<>>, seconds |-> 0, got |-> got, by |-> by]
Slept(seconds, by) ==
  [ev |-> "sleep", command |-> <<>>, seconds |-> seconds, got |-> "", by |-> by]
\* netcat.find_regex_sl(output, regex): what it found in the output of a command
Found(got, by) ==
  [ev |-> "find_regex_sl", command |-> <<>>, seconds |-> 0, got |-> got, by |-> by]

\* NetCatCliAccess.send_command(command): the line is sent and the prompt is
\* expected; pexpect.TIMEOUT when it does not come
SendCommand(command, by, answered) ==
  << Sent(command, by), Expected(IF answered THEN "cli_prompt" ELSE "TIMEOUT", by) >>

\* for _ in range(6)
CommitPolls == 6

DeployPAInit ==
  /\ snippet \in Snippets
  /\ no_commit \in BOOLEAN
  /\ ha_prompt \in HaPrompts
  /\ pa_pc = "validate_ha_state"
  /\ pa_loop = 0
  /\ pa_io = <<>>
  /\ command_output = <<>>
  /\ pa_exc = "None"
  /\ SessionIdle
  /\ JobIdle
  /\ FIdle
  /\ WIdle
  /\ UIdle
  /\ DIdle

\* the operation goes on at next_pc, or ends with exception
PaGoOn(events, next_pc, loop) ==
  /\ pa_io' = pa_io \o events
  /\ pa_pc' = next_pc
  /\ pa_loop' = loop
  /\ pa_exc' = pa_exc

PaRaise(events, exception) ==
  /\ pa_io' = pa_io \o events
  /\ pa_pc' = "raised"
  /\ pa_loop' = pa_loop
  /\ pa_exc' = exception

PaUnchanged == UNCHANGED <<snippet, no_commit, ha_prompt, svars, jvars, fvars, wvars, uvars, dvars>>

\* validate_ha_state(snippet): an empty line is sent and the prompt is matched
\* against the expected state first, against cli_prompt second
validate_ha_state ==
  /\ pa_pc = "validate_ha_state"
  /\ \E answered \in BOOLEAN :
       LET expected_ha_state == expected_ha_state_of(snippet)
           got == IF ~answered THEN "TIMEOUT"
                  ELSE IF PromptMatches(ha_prompt, expected_ha_state) THEN "expected_ha_state"
                  ELSE IF CliPromptMatches(ha_prompt) THEN "cli_prompt"
                  ELSE "TIMEOUT"
           events == << Sent(CMD_EMPTY, "validate_ha_state"), Expected(got, "validate_ha_state") >>
       IN IF got = "expected_ha_state"
          THEN PaGoOn(events, "clear_commit_in_progress_1", CommitPolls)
          ELSE PaRaise(events, "CustomException")
  /\ UNCHANGED command_output
  /\ PaUnchanged

\* a loop whose else clause is never reached
range_never_exhausted(left) == FALSE

\* for _ in range(6) ... else: this pass is the last one of the range
range_exhausted(left) == left = 1

\* clear_commit_in_progress: one pass of its loop; the else clause of the loop
\* raises when the last pass still saw a commit
clear_commit_in_progress ==
  /\ pa_pc \in {"clear_commit_in_progress_1", "clear_commit_in_progress_2"}
  /\ pa_loop > 0
  /\ \E outcome \in {"TIMEOUT", "Commit ACT", "no commit"} :
       LET by == "clear_commit_in_progress" IN
       CASE outcome = "TIMEOUT" ->
              PaRaise(SendCommand(CMD_SHOW_JOBS, by, FALSE), "CustomException")
         [] outcome = "Commit ACT" ->
              LET events == SendCommand(CMD_SHOW_JOBS, by, TRUE) \o << Found("Commit ACT", by), Slept(30, by) >> IN
                IF range_exhausted(pa_loop) THEN PaRaise(events, "CustomException")
                ELSE PaGoOn(events, pa_pc, pa_loop - 1)
         [] outcome = "no commit" ->
              PaGoOn(SendCommand(CMD_SHOW_JOBS, by, TRUE) \o << Found("", by) >>,
                     IF pa_pc = "clear_commit_in_progress_1"
                     THEN "enter_config_mode_1" ELSE "enter_config_mode_2", 0)
  /\ UNCHANGED command_output
  /\ PaUnchanged

\* enter_config_mode, before the snippet lines and before the commit
enter_config_mode ==
  /\ pa_pc \in {"enter_config_mode_1", "enter_config_mode_2"}
  /\ \E answered \in BOOLEAN :
       IF answered
       THEN IF pa_pc = "enter_config_mode_1"
            THEN PaGoOn(SendCommand(CMD_CONFIGURE, "enter_config_mode", TRUE), "snippet_lines", 1)
            ELSE PaGoOn(SendCommand(CMD_CONFIGURE, "enter_config_mode", TRUE), "send_commit_command", 0)
       ELSE PaRaise(SendCommand(CMD_CONFIGURE, "enter_config_mode", FALSE), "CustomException")
  /\ UNCHANGED command_output
  /\ PaUnchanged

\* deploy_config_snippet: one pass of the loop over snippet_lines
deploy_snippet_line ==
  /\ pa_pc = "snippet_lines"
  /\ LET snippet_lines == Split(snippet)
         line == snippet_lines[pa_loop]
         next_pc == IF pa_loop = Len(snippet_lines) THEN "exit_config_mode" ELSE "snippet_lines"
     IN IF snippet_line_sent(line)
        THEN \E answered \in BOOLEAN :
               IF answered
               THEN PaGoOn(SendCommand(line, "deploy_config_snippet", TRUE), next_pc, pa_loop + 1)
               ELSE PaRaise(SendCommand(line, "deploy_config_snippet", FALSE), "CustomException")
        ELSE PaGoOn(<<>>, next_pc, pa_loop + 1)
  /\ UNCHANGED command_output
  /\ PaUnchanged

\* exit_config_mode after the snippet lines; with no_commit the operation
\* returns here
exit_config_mode ==
  /\ pa_pc = "exit_config_mode"
  /\ \E answered \in BOOLEAN :
       IF answered
       THEN IF no_commit
            THEN PaGoOn(SendCommand(CMD_EXIT, "exit_config_mode", TRUE), "returned", 0)
            ELSE PaGoOn(SendCommand(CMD_EXIT, "exit_config_mode", TRUE),
                        "clear_commit_in_progress_2", CommitPolls)
       ELSE PaRaise(SendCommand(CMD_EXIT, "exit_config_mode", FALSE), "CustomException")
  /\ UNCHANGED command_output
  /\ PaUnchanged

\* send_commit_command: "commit" is sent; the prompt ends it, or the device
\* asks to synchronize the peers first
send_commit_command ==
  /\ pa_pc = "send_commit_command"
  /\ \E got \in {"cli_prompt", "Please synchronize the peers", "TIMEOUT"} :
       LET events == << Sent(CMD_COMMIT, "send_commit_command"), Expected(got, "send_commit_command") >> IN
       CASE got = "cli_prompt" ->
              /\ \E text \in CommitOutputs : command_output' = text
              /\ PaGoOn(events, "commit_output", 0)
         [] got = "Please synchronize the peers" ->
              /\ PaGoOn(events, "send_command_n", 0)
              /\ UNCHANGED command_output
         [] got = "TIMEOUT" ->
              /\ PaRaise(events, "CustomException")
              /\ UNCHANGED command_output
  /\ PaUnchanged

\* send_commit_command after the question: "n", exit_config_mode, the
\* synchronization request, two minutes of sleep, and self.commit_config(),
\* a method no class of the program defines
send_commit_command_synchronize ==
  /\ pa_pc \in {"send_command_n", "sync_exit_config_mode", "sync_to_remote"}
  /\ \E answered \in BOOLEAN :
       LET by == "send_commit_command"
           command == CASE pa_pc = "send_command_n" -> CMD_N
                        [] pa_pc = "sync_exit_config_mode" -> CMD_EXIT
                        [] pa_pc = "sync_to_remote" -> CMD_SYNC
       IN IF ~answered THEN PaRaise(SendCommand(command, by, FALSE), "CustomException")
          ELSE CASE pa_pc = "send_command_n" ->
                      PaGoOn(SendCommand(command, by, TRUE), "sync_exit_config_mode", 0)
                 [] pa_pc = "sync_exit_config_mode" ->
                      PaGoOn(SendCommand(command, by, TRUE), "sync_to_remote", 0)
                 [] pa_pc = "sync_to_remote" ->
                      PaRaise(SendCommand(command, by, TRUE) \o << Slept(120, by) >>, "AttributeError")
  /\ UNCHANGED command_output
  /\ PaUnchanged

\* deploy_config_snippet after the commit: the scan of commit_output, then
\* "revert config" and the exception, or exit_config_mode
check_commit_output ==
  /\ pa_pc = "commit_output"
  /\ \E answered \in BOOLEAN :
       LET by == "deploy_config_snippet" IN
       IF commit_validation_error_of(command_output)
       THEN PaRaise(SendCommand(CMD_REVERT, by, answered), "CustomException")
       ELSE IF answered
            THEN PaGoOn(SendCommand(CMD_EXIT, "exit_config_mode", TRUE), "returned", 0)
            ELSE PaRaise(SendCommand(CMD_EXIT, "exit_config_mode", FALSE), "CustomException")
  /\ UNCHANGED command_output
  /\ PaUnchanged

DeployPANext ==
  \/ validate_ha_state
  \/ clear_commit_in_progress
  \/ enter_config_mode
  \/ deploy_snippet_line
  \/ exit_config_mode
  \/ send_commit_command
  \/ send_commit_command_synchronize
  \/ check_commit_output

SpecDeployPA == DeployPAInit /\ [][DeployPANext]_vars

\* a call of clear_commit_in_progress runs on: each pass of its loop ends, the
\* wait on the device with its answer or with the timeout of expect, the sleep
\* after 30 seconds
SpecDeployPAFair == SpecDeployPA /\ WF_vars(clear_commit_in_progress)

\* ------------------------------------------------------------------------
\* netcat_deploy.deploy_config_snippet on a Cisco device: the inner function _
\* on an open CiscoCliAccess session.  A command line is the tuple of its text.
\* ------------------------------------------------------------------------

CMD_SHOW_BGP == <<"show ip bgp summary">>
CMD_SHOW_DEFAULT_ROUTE == <<"show running-config | include 0.0.0.0 0.0.0.0">>
CMD_COPY_FLASH == <<"copy running-config flash:/{config_name}", "\r\r\r\r\r">>

\* _ without the call of cli.create_config_snapshot
DeployStep_no_snapshot(p, args) ==
  IF p = "start" /\ args.site_id_check THEN "get_site_id"
  ELSE IF p \in {"start", "get_site_id"} /\ args.inet_gw_check THEN "get_inet_gw"
  ELSE "deploy_config_snippet"

\* _ : the statement after the one at position p
DeployStep(p, args) ==
  IF p = "start" /\ args.site_id_check THEN "get_site_id"
  ELSE IF p \in {"start", "get_site_id"} /\ args.inet_gw_check THEN "get_inet_gw"
  ELSE IF p \in {"start", "get_site_id", "get_inet_gw"} THEN "create_config_snapshot"
  ELSE "deploy_config_snippet"

DeployCiscoInit ==
  /\ deploy_args \in
       { [device_type |-> t, snippet |-> s, site_id_check |-> i, inet_gw_check |-> g] :
           t \in {T_cisco_router, T_cisco_switch}, s \in Snippets, i \in BOOLEAN, g \in BOOLEAN }
  /\ cd_pc = DeployStep("start", deploy_args)
  /\ cd_io = <<>>
  /\ cd_exc = "None"
  /\ SessionIdle
  /\ JobIdle
  /\ FIdle
  /\ WIdle
  /\ PIdle
  /\ UIdle

CdUnchanged == UNCHANGED <<deploy_args, svars, jvars, fvars, wvars, pvars, uvars>>

\* netcat_deploy.deploy_config_snippet opened a CiscoCliAccess session
CiscoSession == deploy_args.device_type \in {T_cisco_router, T_cisco_switch}

\* an exception leaves _ and the with block
CdRaise(e) == cd_pc' = "raised" /\ cd_exc' = e

\* get_site_id / get_inet_gw: on a router the command is sent and its output
\* searched; on any other type, and when nothing is found, CustomException
Detect(p, command, answered, found) ==
  /\ cd_pc = p
  /\ CiscoSession
  /\ IF deploy_args.device_type = T_cisco_router
     THEN /\ cd_io' = cd_io \o SendCommand(command, p, answered)
          /\ IF answered /\ found
             THEN cd_pc' = DeployStep(p, deploy_args) /\ cd_exc' = cd_exc
             ELSE CdRaise("CustomException")
     ELSE /\ cd_io' = cd_io
          /\ CdRaise("CustomException")
  /\ CdUnchanged

get_site_id(answered, found) == Detect("get_site_id", CMD_SHOW_BGP, answered, found)

get_inet_gw(answered, found) == Detect("get_inet_gw", CMD_SHOW_DEFAULT_ROUTE, answered, found)

\* CiscoCliAccess.create_config_snapshot
cisco_create_config_snapshot(answered) ==
  /\ cd_pc = "create_config_snapshot"
  /\ CiscoSession
  /\ cd_io' = cd_io \o SendCommand(CMD_COPY_FLASH, "create_config_snapshot", answered)
  /\ IF answered
     THEN cd_pc' = DeployStep(cd_pc, deploy_args) /\ cd_exc' = cd_exc
     ELSE CdRaise("CustomException")
  /\ CdUnchanged

\* _ : cli.deploy_config_snippet(snippet, no_commit).  CiscoCliAccess declares
\* deploy_config_snippet(self, snippet): the call has one positional argument
\* too many, a TypeError raised before the body runs, which neither
\* netcat_cli.exception_handler nor the with block catches
cisco_deploy_config_snippet ==
  /\ cd_pc = "deploy_config_snippet"
  /\ CiscoSession
  /\ CdRaise("TypeError")
  /\ cd_io' = cd_io
  /\ CdUnchanged

DeployCiscoNext ==
  \/ \E answered \in BOOLEAN, found \in BOOLEAN : get_site_id(answered, found)
  \/ \E answered \in BOOLEAN, found \in BOOLEAN : get_inet_gw(answered, found)
  \/ \E answered \in BOOLEAN : cisco_create_config_snapshot(answered)
  \/ cisco_deploy_config_snippet

SpecDeployCisco == DeployCiscoInit /\ [][DeployCiscoNext]_vars

\* ------------------------------------------------------------------------
\* netcat_deploy.deploy_config_snippet on a device of any of its three types:
\* the inner function _ on an open session, up to the end of
\* cli.deploy_config_snippet
\* ------------------------------------------------------------------------

\* "show routing protocol bgp summary"
CMD_SHOW_ROUTING_BGP == <<"s", "h", "o", "w", " ", "r", "o", "u", "t", "i", "n", "g", " ", "p", "r", "o", "t", "o", "c", "o", "l", " ", "b", "g", "p", " ", "s", "u", "m", "m", "a", "r", "y">>
\* "set cli config-output-format set"
CMD_SET_FORMAT_SET == <<"s", "e", "t", " ", "c", "l", "i", " ", "c", "o", "n", "f", "i", "g", "-", "o", "u", "t", "p", "u", "t", "-", "f", "o", "r", "m", "a", "t", " ", "s", "e", "t">>
\* "show network virtual-router VR_GLOBAL routing-table ip static-route SR_DEFAULT nexthop"
CMD_SHOW_NEXTHOP == <<"s", "h", "o", "w", " ", "n", "e", "t", "w", "o", "r", "k", " ", "v", "i", "r", "t", "u", "a", "l", "-", "r", "o", "u", "t", "e", "r", " ", "V", "R", "_", "G", "L", "O", "B", "A", "L", " ", "r", "o", "u", "t", "i", "n", "g", "-", "t", "a", "b", "l", "e", " ", "i", "p", " ", "s", "t", "a", "t", "i", "c", "-", "r", "o", "u", "t", "e", " ", "S", "R", "_", "D", "E", "F", "A", "U", "L", "T", " ", "n", "e", "x", "t", "h", "o", "p">>
\* "set cli config-output-format default"
CMD_SET_FORMAT_DEFAULT == <<"s", "e", "t", " ", "c", "l", "i", " ", "c", "o", "n", "f", "i", "g", "-", "o", "u", "t", "p", "u", "t", "-", "f", "o", "r", "m", "a", "t", " ", "d", "e", "f", "a", "u", "l", "t">>
\* "save config to {config_name}"
CMD_SAVE_CONFIG == <<"s", "a", "v", "e", " ", "c", "o", "n", "f", "i", "g", " ", "t", "o", " ", "{", "c", "o", "n", "f", "i", "g", "_", "n", "a", "m", "e", "}">>

\* the replacement fields of a snippet
FIELD_SITE_NAME == <<"{", "s", "i", "t", "e", "_", "n", "a", "m", "e", "}">>
FIELD_SITE_ID == <<"{", "s", "i", "t", "e", "_", "i", "d", "}">>
FIELD_INET_GW == <<"{", "i", "n", "e", "t", "_", "g", "w", "}">>

\* device_info["device_name"], and what the device tells of itself
DEPLOY_DEVICE_NAME == <<"s", "i", "t", "e", "1", "f", "w", "1">>
SITE_ID == <<"1", "2">>
INET_GW == <<"1", "0", ".", "0", ".", "0", ".", "1">>

\* the snippets of a deployment: two without replacement fields, one with the
\* three of them and a doubled brace
DeploySnippets ==
  { <<"s", "e", "t", " ", "a">> \o <<NL>> \o <<"s", "e", "t", " ", "b">> \o <<NL>> \o <<>> \o <<NL>> \o <<>>,
    <<"#", " ", "E", "x", "p", "e", "c", "t", "e", "d", " ", "H", "A", " ", "s", "t", "a", "t", "e", ":", " ", "p", "a", "s", "s", "i", "v", "e">> \o <<NL>> \o <<"#", " ", "n", "o", "t", "e">> \o <<NL>> \o <<"s", "e", "t", " ", "a">> \o <<NL>> \o <<>> \o <<NL>> \o <<"s", "e", "t", " ", "b">> \o <<NL>> \o <<>> \o <<NL>> \o <<>>,
    <<"s", "e", "t", " ", "i", "d", " ", "{", "s", "i", "t", "e", "_", "i", "d", "}">> \o <<NL>> \o <<"#", " ", "{", "{", "n", "o", "t", "e", "}", "}">> \o <<NL>> \o <<"s", "e", "t", " ", "g", "w", " ", "{", "i", "n", "e", "t", "_", "g", "w", "}", " ", "{", "s", "i", "t", "e", "_", "n", "a", "m", "e", "}">> \o <<NL>> \o <<>> \o <<NL>> \o <<>> }

\* snippet.format(site_name=, site_id=, inet_gw=) on a snippet that
\* read_snippet_files accepted
RECURSIVE format(_, _, _, _)
format(s, site_name, site_id, inet_gw) ==
  LET braces == { k \in DOMAIN s : s[k] \in {"{", "}"} } IN
  IF braces = {} THEN s
  ELSE LET first == CHOOSE k \in braces : \A j \in braces : k <= j
           rest == SubSeq(s, first, Len(s))
           \* the text a replacement field or a doubled brace stands for, and its length
           field == IF StartsWith(rest, FIELD_SITE_NAME) THEN <<site_name, Len(FIELD_SITE_NAME)>>
                    ELSE IF StartsWith(rest, FIELD_SITE_ID) THEN <<site_id, Len(FIELD_SITE_ID)>>
                    ELSE IF StartsWith(rest, FIELD_INET_GW) THEN <<inet_gw, Len(FIELD_INET_GW)>>
                    ELSE <<SubSeq(rest, 1, 1), 2>>
       IN SubSeq(s, 1, first - 1) \o field[1]
            \o format(SubSeq(s, first + field[2], Len(s)), site_name, site_id, inet_gw)

\* _ : the snippet handed to cli.deploy_config_snippet
formatted_snippet(args) ==
  format(args.snippet,
         upper(SubSeq(DEPLOY_DEVICE_NAME, 1, Len(DEPLOY_DEVICE_NAME) - 3)),
         IF args.site_id_check THEN SITE_ID ELSE <<>>,
         IF args.inet_gw_check THEN INET_GW ELSE <<>>)

\* commands sent one after another; the one after the answered ones times out
RECURSIVE SendCommands(_, _, _)
SendCommands(commands, by, answered) ==
  IF commands = <<>> THEN <<>>
  ELSE IF answered = 0 THEN SendCommand(Head(commands), by, FALSE)
  ELSE SendCommand(Head(commands), by, TRUE) \o SendCommands(Tail(commands), by, answered - 1)

DeployInit ==
  /\ deploy_args \in
       { [device_type |-> t, snippet |-> s, site_id_check |-> i, inet_gw_check |-> g] :
           t \in {T_paloalto, T_cisco_router, T_cisco_switch}, s \in DeploySnippets,
           i \in BOOLEAN, g \in BOOLEAN }
  /\ cd_pc = DeployStep("start", deploy_args)
  /\ cd_io = <<>>
  /\ cd_exc = "None"
  /\ snippet = <<>>
  /\ IF deploy_args.device_type = T_paloalto
     THEN no_commit \in BOOLEAN /\ ha_prompt \in HaPrompts
     ELSE no_commit = FALSE /\ ha_prompt = <<>>
  /\ pa_pc = "idle"
  /\ pa_loop = 0
  /\ pa_io = <<>>
  /\ command_output = <<>>
  /\ pa_exc = "None"
  /\ SessionIdle
  /\ JobIdle
  /\ FIdle
  /\ WIdle
  /\ UIdle

\* PACliAccess.get_site_id
pa_get_site_id(answered, found) ==
  /\ cd_pc = "get_site_id"
  /\ deploy_args.device_type = T_paloalto
  /\ cd_io' = cd_io \o SendCommand(CMD_SHOW_ROUTING_BGP, "get_site_id", answered)
  /\ IF answered /\ found
     THEN cd_pc' = DeployStep(cd_pc, deploy_args) /\ cd_exc' = cd_exc
     ELSE CdRaise("CustomException")
  /\ CdUnchanged

\* PACliAccess.get_inet_gw: send_config_command sends five commands, the
\* output of the third is searched
pa_get_inet_gw(answered, found) ==
  /\ cd_pc = "get_inet_gw"
  /\ deploy_args.device_type = T_paloalto
  /\ LET commands == << CMD_SET_FORMAT_SET, CMD_CONFIGURE, CMD_SHOW_NEXTHOP, CMD_EXIT,
                        CMD_SET_FORMAT_DEFAULT >>
     IN /\ cd_io' = cd_io \o SendCommands(commands, "get_inet_gw", answered)
        /\ IF answered = Len(commands) /\ found
           THEN cd_pc' = DeployStep(cd_pc, deploy_args) /\ cd_exc' = cd_exc
           ELSE CdRaise("CustomException")
  /\ CdUnchanged

\* PACliAccess.create_config_snapshot: configure, save config to <name>, exit;
\* the method is not wrapped, the timeout of expect leaves it as it is
pa_create_config_snapshot(answered) ==
  /\ cd_pc = "create_config_snapshot"
  /\ deploy_args.device_type = T_paloalto
  /\ LET commands == << CMD_CONFIGURE, CMD_SAVE_CONFIG, CMD_EXIT >>
     IN /\ cd_io' = cd_io \o SendCommands(commands, "create_config_snapshot", answered)
        /\ IF answered = Len(commands)
           THEN cd_pc' = DeployStep(cd_pc, deploy_args) /\ cd_exc' = cd_exc
           ELSE CdRaise("TIMEOUT")
  /\ CdUnchanged

\* _ : cli.deploy_config_snippet(snippet, no_commit) on a PACliAccess session,
\* with the formatted snippet
pa_deploy_config_snippet ==
  /\ cd_pc = "deploy_config_snippet"
  /\ deploy_args.device_type = T_paloalto
  /\ pa_pc = "idle"
  /\ cd_pc' = "deploying"
  /\ snippet' = formatted_snippet(deploy_args)
  /\ pa_pc' = "validate_ha_state"
  /\ UNCHANGED <<deploy_args, cd_io, cd_exc, no_commit, ha_prompt, pa_loop, pa_io, command_output, pa_exc>>
  /\ UNCHANGED <<svars, jvars, fvars, wvars, uvars>>

DeployNext ==
  \/ DeployCiscoNext
  \/ \E answered \in BOOLEAN, found \in BOOLEAN : pa_get_site_id(answered, found)
  \/ \E answered \in 0..5, found \in BOOLEAN : pa_get_inet_gw(answered, found)
  \/ \E answered \in 0..3 : pa_create_config_snapshot(answered)
  \/ pa_deploy_config_snippet
  \/ DeployPANext

SpecDeploy == DeployInit /\ [][DeployNext]_vars

\* ------------------------------------------------------------------------
\* netcat_upgrade.upgrade_software(device_info, REQUESTED_SOFTWARE_VERSION,
\* upgrade): PACliAccess.download_software, create_config_snapshot and
\* upgrade_software on one device
\* ------------------------------------------------------------------------

\* netcat_upgrade.REQUESTED_SOFTWARE_VERSION = "9.0.7", split on "."
REQUESTED_SOFTWARE_VERSION == <<"9", "0", "7">>

\* a chain that keeps the members with a zero
software_version_dependencies_no_skip(version) ==
  << <<version[1], "0", "0">>, <<version[1], version[2], "0">>, version >>

\* download_software: requested_software_version_dependencies
software_version_dependencies(version) ==
  LET major == version[1]
      minor == version[2]
      patch == version[3]
  IN << <<major, "0", "0">> >>
       \o (IF minor # "0" THEN << <<major, minor, "0">> >> ELSE <<>>)
       \o (IF patch # "0" THEN << <<major, minor, patch>> >> ELSE <<>>)

\* for _ in range(3), for _ in range(30)
Attempts == 3
Tries == 30

Command(name, version) == [ev |-> "sendline", name |-> name, version |-> version]
Returned(name) == [ev |-> "return", name |-> name, version |-> <<>>]
\* a line download_software writes to the log about a version
Noted(name, version) == [ev |-> "log", name |-> name, version |-> version]
\* "Attempting to download software version", with the pass of range(3) it opens
AttemptName(n) ==
  CASE n = 1 -> "attempt 1" [] n = 2 -> "attempt 2" [] n = 3 -> "attempt 3" [] OTHER -> "attempt 4 or later"

\* the log with the entries it does not hold yet
RECURSIVE Logged(_, _)
Logged(log, entries) ==
  IF entries = <<>> THEN log
  ELSE Logged(IF \E k \in DOMAIN log : log[k] = Head(entries) THEN log ELSE Append(log, Head(entries)),
              Tail(entries))

\* what "show jobs id" shows of a job
JobReadings ==
  { [state |-> s, result |-> r] :
      s \in {"ACT", "QUEUED"}, r \in {"PEND"} } \cup
  { [state |-> "FIN", result |-> r] : r \in {"OK", "FAIL"} }

\* the State lines "show high-availability all" shows, local peer first
HaReadings ==
  { <<>>, <<"active">>, <<"active", "passive">>, <<"passive", "active">>,
    <<"active", "non-functional">>, <<"initial", "passive">>, <<"suspended", "suspended">> }

\* a check that reads the local state only
ha_local_state_okay(states) == states[1] \in {"active", "passive"}

\* upgrade_software: both states look okay
ha_states_okay(states) == states[1] \in {"active", "passive"} /\ states[2] \in {"active", "passive"}

\* what follows download_software whatever the flag
snapshot_after_download(flag) == "create_config_snapshot"

\* netcat_upgrade.upgrade_software: what follows download_software
after_download(flag) == IF flag THEN "create_config_snapshot" ELSE "returned"

\* the versions a device is asked to run: the one of netcat_upgrade and others
\* with and without a minor and a patch number
RequestedVersions ==
  { REQUESTED_SOFTWARE_VERSION, <<"9", "0", "0">>, <<"9", "1", "0">>, <<"9", "1", "3">> }

UpgradeInit ==
  /\ upgrade \in BOOLEAN
  /\ requested_software_version \in RequestedVersions
  /\ up_device_type \in {T_paloalto, T_cisco_router}
  /\ up_pc = "upgrade_software"
  /\ dependency = 0
  /\ available = {}
  /\ attempts_left = 0
  /\ tries_left = 0
  /\ job = [state |-> "", result |-> ""]
  /\ ha_states = <<>>
  /\ up_log = <<>>
  /\ up_exc = "None"
  /\ SessionIdle
  /\ JobIdle
  /\ FIdle
  /\ WIdle
  /\ PIdle
  /\ DIdle

UpRaise(entries, exception) ==
  /\ up_log' = Logged(up_log, entries)
  /\ up_pc' = "raised"
  /\ up_exc' = exception

UpGoOn(entries, next_pc) ==
  /\ up_log' = Logged(up_log, entries)
  /\ up_pc' = next_pc
  /\ up_exc' = up_exc

UpUnchanged == UNCHANGED <<upgrade, requested_software_version, up_device_type, svars, jvars, fvars, wvars, pvars, dvars>>

\* netcat_upgrade.upgrade_software: a paloalto device gets a session, which
\* opens or raises; any other type raises
open_upgrade_session ==
  /\ up_pc = "upgrade_software"
  /\ \E opened_cli \in BOOLEAN :
       IF up_device_type = T_paloalto /\ opened_cli
       THEN UpGoOn(<<>>, "software_check")
       ELSE UpRaise(<<>>, "CustomException")
  /\ UNCHANGED <<dependency, available, attempts_left, tries_left, job, ha_states>>
  /\ UpUnchanged

\* download_software: the list of available versions is refreshed
download_software_check ==
  /\ up_pc = "software_check"
  /\ LET dependencies == software_version_dependencies(requested_software_version)
         check == << Command("request system software check", <<>>) >>
     IN \E outcome \in {"TIMEOUT", "Server error", "list"} :
          IF outcome = "list"
          THEN /\ \E downloaded \in SUBSET { dependencies[k] : k \in DOMAIN dependencies } :
                    available' = downloaded
               /\ dependency' = 1
               /\ UpGoOn(check, "download_dependency")
          ELSE /\ UpRaise(check, "CustomException")
               /\ UNCHANGED <<dependency, available>>
  /\ UNCHANGED <<attempts_left, tries_left, job, ha_states>>
  /\ UpUnchanged

\* download_software: one pass of the loop over the dependencies; after the
\* last one download_software returns and netcat_upgrade.upgrade_software
\* goes on, or returns when the flag is not set
download_software_dependency ==
  /\ up_pc = "download_dependency"
  /\ LET dependencies == software_version_dependencies(requested_software_version) IN
       IF dependency > Len(dependencies)
       THEN /\ UpGoOn(<< Returned("download_software") >>, after_download(upgrade))
            /\ UNCHANGED <<dependency, attempts_left, tries_left>>
       ELSE IF dependencies[dependency] \in available
       THEN /\ dependency' = dependency + 1
            /\ UpGoOn(<< Noted("already downloaded", dependencies[dependency]) >>, "download_dependency")
            /\ UNCHANGED <<attempts_left, tries_left>>
       ELSE /\ attempts_left' = Attempts
            /\ tries_left' = Tries
            /\ UpGoOn(<< Noted(AttemptName(1), dependencies[dependency]) >>, "download_request")
            /\ UNCHANGED dependency
  /\ UNCHANGED <<available, job, ha_states>>
  /\ UpUnchanged

\* a range(30) that never ends
tries_never_exhausted(left) == FALSE

\* for _ in range(30) ... else: the pass that has to wait was the last one
tries_exhausted(left) == left = 1

\* download_software: one request of the download; another download in
\* progress makes it wait and ask again, up to 30 times
download_software_request ==
  /\ up_pc = "download_request"
  /\ LET version == software_version_dependencies(requested_software_version)[dependency]
         request == << Command("request system software download version", version) >>
     IN \E outcome \in {"TIMEOUT", "Server error", "Another download is in progress", "enqueued"} :
          CASE outcome = "enqueued" ->
                 UpGoOn(request, "download_job") /\ UNCHANGED tries_left
            [] outcome = "Another download is in progress" ->
                 /\ tries_left' = tries_left - 1
                 /\ IF tries_exhausted(tries_left) THEN UpRaise(request, "CustomException")
                    ELSE UpGoOn(request, "download_request")
            [] OTHER ->
                 UpRaise(request, "CustomException") /\ UNCHANGED tries_left
  /\ UNCHANGED <<dependency, available, attempts_left, job, ha_states>>
  /\ UpUnchanged

\* a range(3) that never ends
attempts_never_exhausted(left) == FALSE

\* for _ in range(3) ... else: the pass that failed was the last one
attempts_exhausted(left) == left = 1

\* download_software: the download job is polled until it is neither ACT nor
\* QUEUED; FIN OK ends the attempts, anything else uses one up
download_software_job ==
  /\ up_pc = "download_job"
  /\ LET poll == << Command("show jobs id", <<>>) >>
         version == software_version_dependencies(requested_software_version)[dependency]
     IN
       \E answered \in BOOLEAN :
         IF ~answered
         THEN UpRaise(poll, "CustomException") /\ UNCHANGED <<job, dependency, attempts_left, tries_left>>
         ELSE \E reading \in JobReadings :
                /\ job' = reading
                /\ IF reading.state \in {"ACT", "QUEUED"}
                   THEN UpGoOn(poll, "download_job") /\ UNCHANGED <<dependency, attempts_left, tries_left>>
                   ELSE IF reading.result = "OK"
                   THEN /\ dependency' = dependency + 1
                        /\ UpGoOn(poll \o << Noted("completed", version) >>, "download_dependency")
                        /\ UNCHANGED <<attempts_left, tries_left>>
                   ELSE /\ attempts_left' = attempts_left - 1
                        /\ tries_left' = Tries
                        /\ IF attempts_exhausted(attempts_left)
                           THEN UpRaise(poll \o << Noted("failed", version) >>, "CustomException")
                           ELSE UpGoOn(poll \o << Noted("failed", version),
                                                  Noted(AttemptName(Attempts - attempts_left + 2), version) >>,
                                       "download_request")
                        /\ UNCHANGED dependency
  /\ UNCHANGED <<available, ha_states>>
  /\ UpUnchanged

\* create_config_snapshot: configure, save config to <name>, exit
create_config_snapshot ==
  /\ up_pc = "create_config_snapshot"
  /\ LET commands == << Command("configure", <<>>), Command("save config to", <<>>),
                        Command("exit", <<>>) >>
     IN \E answered \in 0..3 :
          IF answered = 3
          THEN /\ UpGoOn(commands, "install_request")
               /\ attempts_left' = Attempts
               /\ tries_left' = Tries
          ELSE /\ UpRaise(SubSeq(commands, 1, answered + 1), "CustomException")
               /\ UNCHANGED <<attempts_left, tries_left>>
  /\ UNCHANGED <<dependency, available, job, ha_states>>
  /\ UpUnchanged

\* PACliAccess.upgrade_software: one request of the installation; an
\* installation or a commit in progress makes it wait and ask again, up to 30
\* times
upgrade_software_request ==
  /\ up_pc = "install_request"
  /\ LET request == << Command("request system software install version", requested_software_version) >> IN
       \E outcome \in {"TIMEOUT", "Server error", "install is in progress",
                       "pending jobs in the commit task queue", "commit is in progress", "enqueued"} :
          CASE outcome = "enqueued" ->
                 UpGoOn(request, "install_job") /\ UNCHANGED tries_left
            [] outcome \in {"TIMEOUT", "Server error"} ->
                 UpRaise(request, "CustomException") /\ UNCHANGED tries_left
            [] OTHER ->
                 /\ tries_left' = tries_left - 1
                 /\ IF tries_exhausted(tries_left) THEN UpRaise(request, "CustomException")
                    ELSE UpGoOn(request, "install_request")
  /\ UNCHANGED <<dependency, available, attempts_left, job, ha_states>>
  /\ UpUnchanged

\* PACliAccess.upgrade_software: the install job is polled until it is neither
\* ACT nor QUEUED; FIN OK ends the attempts, anything else uses one up
upgrade_software_job ==
  /\ up_pc = "install_job"
  /\ LET poll == << Command("show jobs id", <<>>) >> IN
       \E answered \in BOOLEAN :
         IF ~answered
         THEN UpRaise(poll, "CustomException") /\ UNCHANGED <<job, attempts_left, tries_left>>
         ELSE \E reading \in JobReadings :
                /\ job' = reading
                /\ IF reading.state \in {"ACT", "QUEUED"}
                   THEN UpGoOn(poll, "install_job") /\ UNCHANGED <<attempts_left, tries_left>>
                   ELSE IF reading.result = "OK"
                   THEN /\ tries_left' = Tries
                        /\ UpGoOn(poll, "show_high_availability")
                        /\ UNCHANGED attempts_left
                   ELSE /\ attempts_left' = attempts_left - 1
                        /\ tries_left' = Tries
                        /\ IF attempts_exhausted(attempts_left) THEN UpRaise(poll, "CustomException")
                           ELSE UpGoOn(poll, "install_request")
  /\ UNCHANGED <<dependency, available, ha_states>>
  /\ UpUnchanged

\* PACliAccess.upgrade_software: one poll of the HA states, up to 30 a minute
\* apart
upgrade_software_ha ==
  /\ up_pc = "show_high_availability"
  /\ LET poll == << Command("show high-availability all", <<>>) >> IN
       \E answered \in BOOLEAN :
         IF ~answered
         THEN UpRaise(poll, "CustomException") /\ UNCHANGED <<ha_states, tries_left>>
         ELSE \E reading \in HaReadings :
                /\ ha_states' = reading
                /\ IF Len(reading) < 2
                   THEN UpRaise(poll, "CustomException") /\ UNCHANGED tries_left
                   ELSE IF ha_states_okay(reading)
                   THEN UpGoOn(poll, "restart") /\ UNCHANGED tries_left
                   ELSE /\ tries_left' = tries_left - 1
                        /\ IF tries_exhausted(tries_left) THEN UpRaise(poll, "CustomException")
                           ELSE UpGoOn(poll, "show_high_availability")
  /\ UNCHANGED <<dependency, available, attempts_left, job>>
  /\ UpUnchanged

\* PACliAccess.upgrade_software: the reboot
upgrade_software_restart ==
  /\ up_pc = "restart"
  /\ LET restart == << Command("request restart system", <<>>) >> IN
       \E answered \in BOOLEAN :
         IF answered THEN UpGoOn(restart \o << Returned("upgrade_software") >>, "returned")
         ELSE UpRaise(restart, "CustomException")
  /\ UNCHANGED <<dependency, available, attempts_left, tries_left, job, ha_states>>
  /\ UpUnchanged

UpgradeNext ==
  \/ open_upgrade_session
  \/ download_software_check
  \/ download_software_dependency
  \/ download_software_request
  \/ download_software_job
  \/ create_config_snapshot
  \/ upgrade_software_request
  \/ upgrade_software_job
  \/ upgrade_software_ha
  \/ upgrade_software_restart

SpecUpgradePA == UpgradeInit /\ [][UpgradeNext]_vars

\* the worker runs on: every pass of a loop ends, a wait on the device with
\* its answer or with the timeout of expect, a sleep after its seconds
SpecUpgradePAFair == SpecUpgradePA /\ WF_vars(UpgradeNext)

\* ------------------------------------------------------------------------
\* Claims about the session
\* ------------------------------------------------------------------------

\* the session's state in the terms of the specification's state machine
SessionState ==
  IF cli = "closed" THEN "CLOSED"
  ELSE IF exc # "None" THEN "FAILED"
  ELSE IF opened THEN "OPEN"
  ELSE IF cli = "alive" THEN "AUTHING"
  ELSE "INIT"

IsSend(i, line) == io[i].ev = "sendline" /\ io[i].arg = line /\ io[i].by = "open_cli"
PasswordSends == {i \in DOMAIN io : IsSend(i, "password")}
YesSends == {i \in DOMAIN io : IsSend(i, "yes")}
Questions == {i \in DOMAIN io : io[i] = Event("expect", "known_hosts", "open_cli")}
OpenSleeps == {i \in DOMAIN io : io[i].ev = "sleep"}
CommandSends == {i \in DOMAIN io : io[i].ev = "sendline" /\ io[i].by = "send_command"}
FailedCommands ==
  {i \in DOMAIN io : io[i].ev = "expect" /\ io[i].by = "send_command" /\ io[i].arg # "cli_prompt"}

\* C5: whenever the use site  with XCliAccess(device_info) as cli  has been left,
\* by return or by an exception, the ssh child it spawned has been closed.
C5_ClosedOnEveryExit ==
  (pc \in {"returned", "raised"} /\ cli # "None") => cli = "closed"

\* C6: open_cli sends the password at most twice; the second send follows a
\* password re-prompt to the first and exactly one 5-second sleep; a second
\* re-prompt raises and the session is never open.
C6_PasswordRetry ==
  /\ Cardinality(PasswordSends) <= 2
  /\ Cardinality(OpenSleeps) <= 1
  /\ \A i, j \in PasswordSends :
       i < j => /\ j = i + 3
                /\ io[i + 1] = Event("expect", "password_prompt", "open_cli")
                /\ io[i + 2] = Event("sleep", "5", "open_cli")
  /\ \A i, j \in PasswordSends :
       (i < j /\ (j + 1) \in DOMAIN io /\ io[j + 1] = Event("expect", "password_prompt", "open_cli"))
         => (~opened /\ exc = "CustomException" /\ pc = "raised")

C6_Witness ==
  /\ Cardinality(PasswordSends) = 2
  /\ io[Len(io)] = Event("expect", "password_prompt", "open_cli")
  /\ exc = "CustomException"

\* C7: open_cli answers "yes" to the known_hosts question at most once, and a
\* second question in the session ends open_cli with a fault, never with OPEN,
\* in the password and in the rsa mode.
C7_KnownHostsOnce ==
  /\ Cardinality(YesSends) <= 1
  /\ Cardinality(Questions) >= 2 => (~opened /\ exc = "CustomException" /\ pc = "raised")

C7_Witness ==
  /\ device_info.auth = "password"
  /\ Cardinality(Questions) = 2
  /\ exc = "CustomException"

\* C8: a command is sent only in state OPEN, which is entered only when open_cli
\* saw the CLI prompt; once a session is CLOSED or FAILED nothing more is sent
\* on it and it stays CLOSED or FAILED; no line follows a command that timed
\* out or hit the end of the stream.
C8_SendOnlyWhenOpen ==
  [][ /\ (\E i \in DOMAIN io' : i > Len(io) /\ io'[i].ev = "sendline" /\ io'[i].by = "send_command")
         => SessionState = "OPEN"
      /\ SessionState \in {"CLOSED", "FAILED"}
         => (io' = io /\ SessionState' \in {"CLOSED", "FAILED"})
      /\ opened' => \E i \in DOMAIN io' : io'[i] = Event("expect", "cli_prompt", "open_cli")
      /\ \A i \in FailedCommands' : \A j \in DOMAIN io' : j > i => io'[j].ev # "sendline"
    ]_vars

C8_Witness ==
  /\ SessionState = "CLOSED"
  /\ FailedCommands # {}
  /\ Cardinality(CommandSends) >= 2


\* the k-th line send_command sent
NthCommandSend(k) == CHOOSE i \in CommandSends : Cardinality({j \in CommandSends : j < i}) = k - 1
CommandsSent == [k \in 1..Cardinality(CommandSends) |-> io[NthCommandSend(k)].arg]

\* the commands of the first n formats of a catalog, as the catalog declares them
RECURSIVE Declared(_, _)
Declared(output_formats, n) ==
  IF n = 0 THEN <<>>
  ELSE Declared(output_formats, n - 1)
       \o output_formats[n].pre_commands \o output_formats[n].commands \o output_formats[n].post_commands

\* the lines setup_cli sends before the body of the use site starts
RECURSIVE SetupLines(_)
SetupLines(setup) ==
  IF setup = <<>> THEN <<>>
  ELSE (IF Head(setup).op = "send_command" THEN <<Head(setup).command>> ELSE <<>>) \o SetupLines(Tail(setup))

ExpectedLines ==
  IF ~HasAdapter(device_info.device_type) THEN <<>>
  ELSE LET a == AdapterOf(device_info.device_type) IN
       SetupLines(a.setup) \o Declared(a.output_formats, Len(a.output_formats))

\* C21: within one session, the commands of get_device_data are sent in the
\* catalog's declared order: formats in declared order and, inside a format,
\* every pre-command, then every capture command, then every post-command;
\* a command is sent only after the prompt of the previous one was received,
\* and a session that returns has sent them all.
C21_CatalogOrder ==
  /\ Len(CommandsSent) <= Len(ExpectedLines)
  /\ CommandsSent = SubSeq(ExpectedLines, 1, Len(CommandsSent))
  /\ \A i, j \in CommandSends : i < j => io[i + 1] = Event("expect", "cli_prompt", "send_command")
  /\ pc = "returned" => CommandsSent = ExpectedLines

C21_Witness ==
  /\ pc = "returned"
  /\ exc = "None"
  /\ device_info.device_type = T_paloalto
  /\ Len(CommandsSent) = 5 + 16

OpenCliExpects(e) == {i \in DOMAIN io : io[i] = Event("expect", e, "open_cli")}
OpenCliFailed == ~opened /\ exc = "CustomException" /\ pc = "raised"

\* C29: with key (rsa) authentication open_cli never sends the password of the
\* descriptor; a password prompt ends open_cli with a fault, and so does
\* "Connection refused", each as the last thing the session saw; the session
\* is open only after open_cli saw the CLI prompt.
C29_RsaNeverSendsPassword ==
  device_info.auth = "rsa" =>
    /\ PasswordSends = {}
    /\ \A i \in OpenCliExpects("password_prompt") \cup OpenCliExpects("Connection refused") :
         i = Len(io) /\ OpenCliFailed
    /\ opened => OpenCliExpects("cli_prompt") # {}

C29_Witness ==
  /\ device_info.auth = "rsa"
  /\ io = << Event("expect", "known_hosts", "open_cli"), Event("sendline", "yes", "open_cli"),
             Event("expect", "password_prompt", "open_cli") >>
  /\ OpenCliFailed
\* ------------------------------------------------------------------------
\* Claims about the job drivers
\* ------------------------------------------------------------------------

WritesBy(i) == SelectSeq(writes, LAMBDA e : e.by = i)

StatusWriteAttempted == \E k \in DOMAIN writes : writes[k].table_name = DBT_STATUS

StatusDocuments == SeqToSet(db[DBT_STATUS])

ListsComputed == main_pc \in {"save_final_status", "report_final_status", "returned"}

\* C1: a fault in one device's worker never stops the run: when a worker has
\* raised and the driver process has ended, every task was started and finished
\* and the driver went on to the lists (it ended no earlier than at the status
\* document).
C1_FaultNeverStopsRun ==
  (main_pc = "exited" /\ \E i \in DOMAIN process_pool : process_pool[i].pc = "raised")
    => /\ \A j \in DOMAIN process_pool : Finished(process_pool[j])
       /\ StatusWriteAttempted

\* C2: once a run has computed its lists, successful and failed partition the
\* requested list: their union is the requested set, their intersection empty.
C2_ListsPartitionRequested ==
  ListsComputed =>
    /\ SeqToSet(successful_device_name_list) \cup SeqToSet(failed_device_name_list)
         = SeqToSet(requested_device_name_list)
    /\ SeqToSet(successful_device_name_list) \cap SeqToSet(failed_device_name_list) = {}

C2_Witness ==
  /\ main_pc = "returned"
  /\ program = "netcat_deploy"
  /\ successful_device_name_list = <<P1>>
  /\ failed_device_name_list = <<R1>>

\* C3: in a backup worker of a non-test run, db.write is called for the backup
\* table exactly when the detector said changed or force_backup is set, and
\* every device the run reports successful has its info document of this run
\* in the store.
C3_BackupIffChangedOrForced ==
  (program = "netcat_backup" /\ ~arguments.test_run) =>
    /\ \A i \in DOMAIN process_pool :
         LET w == process_pool[i]
             issued == \E k \in DOMAIN writes : writes[k].by = i /\ writes[k].table_name = DBT_BACKUP
             past == \/ w.pc \in {"save_info", "returned"}
                     \/ w.pc = "raised" /\ w.at \in {"save_backup", "save_info"}
         IN /\ issued => past
            /\ past => (issued <=> (w.config_change \/ arguments.force_backup))
    /\ ListsComputed =>
         \A name \in SeqToSet(successful_device_name_list) :
           \E k \in DOMAIN db[DBT_INFO] :
             /\ db[DBT_INFO][k].device_name = name
             /\ db[DBT_INFO][k].snapshot_timestamp = timestamp

C3_Witness ==
  /\ program = "netcat_backup"
  /\ main_pc = "returned"
  /\ ~arguments.force_backup
  /\ Len(process_pool) = 2
  /\ process_pool[1].pc = "returned" /\ ~process_pool[1].config_change
  /\ process_pool[2].pc = "returned" /\ process_pool[2].config_change
  /\ Len(WritesBy(1)) = 1
  /\ Len(WritesBy(2)) = 2

ExactlyOne(entry) == entry.successful # entry.failed

\* C4 as stated: in every status document each entry has exactly one of the
\* flags successful and failed set, and every selected device has an entry.
C4_ExactlyOneFlagPerEntry ==
  \A document \in StatusDocuments :
    document.snapshot_timestamp = timestamp =>
      /\ \A name \in DOMAIN document.device_info_dict : ExactlyOne(document.device_info_dict[name])
      /\ \A name \in SeqToSet(requested_device_name_list) : name \in DOMAIN document.device_info_dict

\* C4: in every status document no entry has both flags set; the entry of a
\* selected device has exactly one of them set, the entry of a device of the
\* inventory that was not selected has neither; every selected device with a
\* non-empty name has an entry.
C4_FlagsOfSelectedDevices ==
  \A document \in StatusDocuments :
    document.snapshot_timestamp = timestamp =>
      /\ \A name \in DOMAIN document.device_info_dict :
           LET entry == document.device_info_dict[name] IN
           /\ ~(entry.successful /\ entry.failed)
           /\ name \in SeqToSet(requested_device_name_list) => ExactlyOne(entry)
           /\ name \notin SeqToSet(requested_device_name_list) => ~entry.successful /\ ~entry.failed
      /\ \A name \in SeqToSet(requested_device_name_list) :
           name # <<>> => name \in DOMAIN document.device_info_dict

C4_Witness ==
  /\ arguments.selector.regexp # <<>>
  /\ \E document \in StatusDocuments :
       /\ document.snapshot_timestamp = timestamp
       /\ R1 \in DOMAIN document.device_info_dict
       /\ P1 \in DOMAIN document.device_info_dict
       /\ document.device_info_dict[R1].failed
       /\ ~document.device_info_dict[R1].successful
       /\ ~document.device_info_dict[P1].failed
       /\ ~document.device_info_dict[P1].successful

\* the profiles that differ from "base" on lines with an excluded fragment only
SameAsBase == {"base", "noise"}

NoStoreFault(i) ==
  /\ process_pool[i].at # "detect_config_change"
  /\ \A k \in DOMAIN writes : writes[k].by = i => writes[k].result # "fault"

\* C9: after an earlier backup job captured a device and saved its backup, a
\* backup job without force_backup in which the device shows the same outputs,
\* except on lines with an excluded fragment, writes the info document only,
\* no backup document, and reports the device successful, whatever the storage
\* backend (the store answering every call).
C9_UnchangedWritesInfoOnly ==
  (program = "netcat_backup" /\ ~arguments.test_run /\ ~arguments.force_backup /\ history # <<>>) =>
    \A i \in DOMAIN process_pool :
      LET w == process_pool[i] IN
      ( /\ Len(process_pool) = 1
        /\ w.device_info = Device(R1, T_cisco_router)
        /\ history[Len(history)] = "base"
        /\ w.profile \in SameAsBase
        /\ Finished(w)
        /\ NoStoreFault(i) )
      => /\ w.pc = "returned"
         /\ Len(WritesBy(i)) = 1
         /\ WritesBy(i)[1].table_name = DBT_INFO
         /\ WritesBy(i)[1].result = "stored"
         /\ ListsComputed => R1 \in SeqToSet(successful_device_name_list)

\* C9 holds with the backends whose load_latest_backup queries the store
C9_UnchangedWritesInfoOnlyQueried ==
  DB_INTERFACE # "FsDB" => C9_UnchangedWritesInfoOnly

\* C10: when load_latest_backup finds no backup of the device,
\* detect_config_change returns changed, and a worker that returns has made
\* exactly two writes, the backup document and then the info document, both
\* for its device and with main's timestamp; the status document lists the
\* device as successful.
C10_FirstBackupWritesBoth ==
  (program = "netcat_backup" /\ ~arguments.test_run) =>
    \A i \in DOMAIN process_pool :
      LET w == process_pool[i]
          decided == \/ w.pc \in {"save_backup", "save_info", "returned"}
                     \/ w.pc = "raised" /\ w.at \in {"save_backup", "save_info"}
      IN /\ (decided /\ ~w.previous_found) => w.config_change
         /\ (w.pc = "returned" /\ ~w.previous_found) =>
              /\ Len(WritesBy(i)) = 2
              /\ WritesBy(i)[1].table_name = DBT_BACKUP
              /\ WritesBy(i)[2].table_name = DBT_INFO
              /\ \A k \in 1..2 :
                   /\ WritesBy(i)[k].device_name = w.device_info.device_name
                   /\ WritesBy(i)[k].snapshot_timestamp = timestamp
                   /\ WritesBy(i)[k].result = "stored"
              /\ \A document \in StatusDocuments :
                   (document.snapshot_timestamp = timestamp /\ w.device_info.device_name # <<>>) =>
                     /\ document.device_info_dict[w.device_info.device_name].successful
                     /\ ~document.device_info_dict[w.device_info.device_name].failed

C10_Witness ==
  /\ program = "netcat_backup"
  /\ main_pc = "returned"
  /\ ~arguments.force_backup
  /\ history = <<>>
  /\ DB_INTERFACE = "DynamoDB"
  /\ Len(process_pool) = 1
  /\ process_pool[1].pc = "returned"
  /\ ~process_pool[1].previous_found
  /\ \E document \in StatusDocuments : document.device_info_dict[R1].successful


\* the driver process has ended
Ended == main_pc \in {"exited", "returned"}

\* the run ended on a missing or unreadable inventory file (which holds the
\* credentials as well) or on an unusable snippet
ProgrammaticError ==
  \/ exit_at = "read_info_list_file" /\ ~inventory_file.readable
  \/ exit_at = "read_snippet_files"

\* C13: the driver process exits with status 0 whenever the run completes,
\* whatever the per-device failures, and with a non-zero status exactly on
\* programmatic errors: a missing or unreadable inventory file, unreadable
\* credentials, or an unusable snippet
C13_ExitStatus ==
  Ended => /\ exit_status # 0 <=> ProgrammaticError
           /\ exit_at = "return" => exit_status = 0

\* a run that reaches the end of main exits with status 0, whatever the
\* per-device failures
C13_CompletedRunExitsZero ==
  (Ended /\ exit_at = "return") => exit_status = 0

\* a run in which a device failed reached the end of main
C13_CompletedWitness ==
  /\ Ended
  /\ exit_at = "return"
  /\ failed_device_name_list # <<>>

TestRun == program = "netcat_backup" /\ arguments.test_run

\* the store as the earlier jobs left it
StoreAtStart ==
  /\ db = Replay(DB_INTERFACE, history, Len(history))
  /\ db_tables = (IF history = <<>> THEN {} ELSE Tables)

\* C20: with the test-run flag set, a backup run performs no storage mutation
\* at all: no table creation, no write to the backup or info table by any
\* worker, and no status document
C20_TestRunMutatesNothing ==
  TestRun => StoreAtStart /\ writes = <<>>

\* a test run writes no document: no worker writes the backup or the info
\* table and main writes no status document
C20_TestRunWritesNoDocument ==
  TestRun => db = Replay(DB_INTERFACE, history, Len(history)) /\ writes = <<>>

\* a test run ended with a device that was read successfully
C20_DocumentWitness ==
  /\ TestRun
  /\ main_pc = "returned"
  /\ successful_device_name_list # <<>>

MalformedRegexp == arguments.selector.regexp = <<"(">>
SelectionMade ==
  /\ main_pc \notin {"create_tables", "read_info_list_file", "get_requested_device_name_list"}
  /\ exit_at # "read_info_list_file"
EmptySelection ==
  /\ requested_device_name_list = <<>>
  /\ main_pc = "exited"
  /\ exit_at = "get_requested_device_name_list"

\* C26: a malformed regular expression given as the regexp selector produces an
\* empty selection in every driver (backup, deploy, upgrade): no exception
\* escapes get_requested_device_name_list, the list is empty and the driver
\* ends at its "no devices selected" exit.
C26_MalformedRegexpEmptySelection ==
  (MalformedRegexp /\ SelectionMade) => EmptySelection

\* C26, for the backup and the upgrade driver
C26_MalformedRegexpBackupUpgrade ==
  (MalformedRegexp /\ SelectionMade /\ program # "netcat_deploy") => EmptySelection

C26_BackupUpgradeWitness ==
  /\ MalformedRegexp
  /\ program = "netcat_upgrade"
  /\ device_info_list # <<>>
  /\ EmptySelection

\* the tables worker i has persisted a document of this job in
PersistedBy(i) ==
  {writes[k].table_name : k \in {k \in DOMAIN writes : writes[k].by = i /\ writes[k].result = "stored"}}
\* the tables cli_process writes for a device whose change detection said config_change
DueTables(config_change) ==
  IF save_backup_wanted(config_change, arguments.force_backup) THEN {DBT_BACKUP, DBT_INFO} ELSE {DBT_INFO}

\* C27: persistence is atomic per device: for each device of a backup job
\* either all the writes due for it are persisted or none is, whatever fault
\* occurs in its worker; a device reported failed has no document of this job
\* in the backup or the info table.
C27_PerDeviceAtomicity ==
  program = "netcat_backup" =>
    \A i \in DOMAIN process_pool :
      Finished(process_pool[i]) =>
        IF process_pool[i].pc = "raised"
        THEN PersistedBy(i) = {}
        ELSE arguments.test_run \/ PersistedBy(i) = DueTables(process_pool[i].config_change)

\* C27, in what holds: a device whose worker returned has all its due documents
\* persisted, and a device whose worker raised has no info document of this job
C27_ReturnedHasAllFailedHasNoInfo ==
  program = "netcat_backup" =>
    \A i \in DOMAIN process_pool :
      Finished(process_pool[i]) =>
        IF process_pool[i].pc = "raised"
        THEN DBT_INFO \notin PersistedBy(i)
        ELSE arguments.test_run \/ PersistedBy(i) = DueTables(process_pool[i].config_change)

C27_ReturnedWitness ==
  /\ program = "netcat_backup"
  /\ main_pc = "returned"
  /\ \E i \in DOMAIN process_pool :
       process_pool[i].pc = "returned" /\ PersistedBy(i) = {DBT_BACKUP, DBT_INFO}
  /\ \E i \in DOMAIN process_pool :
       process_pool[i].pc = "raised" /\ process_pool[i].at = "save_backup"

\* ------------------------------------------------------------------------
\* Claims about the writes of the workers
\* ------------------------------------------------------------------------

\* the writes a worker made to the backup or the info table
WorkerWrites ==
  {k \in DOMAIN writes : writes[k].by \in DOMAIN process_pool /\ writes[k].table_name \in {DBT_BACKUP, DBT_INFO}}
WriteKey(k) == <<writes[k].table_name, writes[k].device_name, writes[k].snapshot_timestamp>>
OwnName ==
  \A k \in WorkerWrites : writes[k].device_name = process_pool[writes[k].by].device_info.device_name
DistinctWorkerNames ==
  \A i, j \in DOMAIN process_pool :
    i # j => process_pool[i].device_info.device_name # process_pool[j].device_info.device_name
\* no two workers wrote under the same primary key of a table
NoSharedKey ==
  \A k, m \in WorkerWrites : writes[k].by # writes[m].by => WriteKey(k) # WriteKey(m)
DistinctInventoryNames ==
  \A i, j \in DOMAIN inventory_file.content :
    i # j => inventory_file.content[i].device_name # inventory_file.content[j].device_name

\* C33: during a run no two workers write a document with the same primary
\* key: every write a worker makes to the backup or info table carries the
\* worker's own device name, and no two workers of a run have the same
\* device name
C33_DisjointPrimaryKeys ==
  program = "netcat_backup" =>
    /\ OwnName
    /\ DistinctWorkerNames
    /\ NoSharedKey

\* C33, in what holds: a worker writes under its own device name, and the
\* workers of a run write under disjoint primary keys when no two entries of
\* the inventory have the same name
C33_DisjointWhenInventoryNamesDiffer ==
  program = "netcat_backup" =>
    /\ OwnName
    /\ DistinctInventoryNames =>
         /\ DistinctWorkerNames
         /\ NoSharedKey

\* two workers for devices of different names each stored an info document
C33_DisjointWitness ==
  /\ program = "netcat_backup"
  /\ DistinctInventoryNames
  /\ \E k, m \in WorkerWrites :
       /\ writes[k].by # writes[m].by
       /\ writes[k].table_name = DBT_INFO /\ writes[m].table_name = DBT_INFO
       /\ writes[k].result = "stored" /\ writes[m].result = "stored"

\* ------------------------------------------------------------------------
\* Claims about device types no adapter knows
\* ------------------------------------------------------------------------

UnknownType(info) == info.device_type \notin SUPPORTED_DEVICE_TYPES
\* worker i got an SSH session open: it captured a catalog, or its operation returned
SessionOpenedBy(i) ==
  \/ process_pool[i].profile # "None"
  \/ program # "netcat_backup" /\ process_pool[i].pc = "returned"

\* C34: an inventory entry with an unknown or unsupported device type is
\* detected at preflight and is fatal to the job driver: the run stops before
\* an SSH session is opened for any device
C34_UnknownTypeFatalAtPreflight ==
  (\E k \in DOMAIN device_info_list : UnknownType(device_info_list[k])) =>
    \A i \in DOMAIN process_pool : ~SessionOpenedBy(i)

\* C34, in what holds: the worker of a device of unknown type raises without
\* a session, and the run reports that device failed
C34_UnknownTypeFailsItsWorker ==
  \A i \in DOMAIN process_pool :
    UnknownType(process_pool[i].device_info) =>
      /\ ~SessionOpenedBy(i)
      /\ Finished(process_pool[i]) => process_pool[i].pc = "raised"
      /\ main_pc = "returned" =>
           \E k \in DOMAIN failed_device_name_list :
             failed_device_name_list[k] = process_pool[i].device_info.device_name

\* a run ended with the device of unknown type failed and another one captured
C34_FailsItsWorkerWitness ==
  /\ main_pc = "returned"
  /\ \E i, j \in DOMAIN process_pool :
       /\ UnknownType(process_pool[i].device_info) /\ process_pool[i].pc = "raised"
       /\ ~UnknownType(process_pool[j].device_info) /\ SessionOpenedBy(j) /\ process_pool[j].pc = "returned"

\* ------------------------------------------------------------------------
\* Claims about the status document of a backup run
\* ------------------------------------------------------------------------

NonTestBackup ==
  program = "netcat_backup" /\ ~arguments.test_run /\ requested_device_name_list # <<>>
\* the db.write calls for the status document, and those the store took
StatusWriteCalls == {k \in DOMAIN writes : writes[k].table_name = DBT_STATUS}
StatusWritten == {k \in StatusWriteCalls : writes[k].result = "stored"}
RunOver == main_pc \in {"returned", "exited"}
\* the status document of this run shows what worker i ended with
Reflected(i) ==
  \E document \in StatusDocuments :
    /\ document.snapshot_timestamp = timestamp
    /\ LET name == process_pool[i].device_info.device_name IN
         /\ name \in DOMAIN document.device_info_dict
         /\ document.device_info_dict[name].successful = (process_pool[i].pc = "returned")
         /\ document.device_info_dict[name].failed = (process_pool[i].pc = "raised")
\* the status document is written after the workers: all have finished and
\* none writes later
StatusAfterWorkers ==
  \A k \in StatusWriteCalls :
    /\ \A i \in DOMAIN process_pool : Finished(process_pool[i])
    /\ \A m \in DOMAIN writes : m > k => writes[m].by = 0

\* C37: in a non-test backup run with a non-empty selection the status
\* document is written exactly once, only after every worker has returned or
\* failed, no worker writes to the backup or info table after it, and it
\* shows the final outcome of every worker
C37_StatusOnceAfterAllWorkers ==
  NonTestBackup =>
    /\ Cardinality(StatusWritten) =< 1
    /\ StatusAfterWorkers
    /\ RunOver => Cardinality(StatusWritten) = 1
    /\ StatusWritten # {} => \A i \in DOMAIN process_pool : Reflected(i)

\* C37, in what holds: the status document is written at most once, only
\* after every worker has finished, and no worker writes after it; a run that
\* returns has written it; it shows the outcome of every worker whose device
\* name is not empty and not the name of another worker
C37_StatusAtMostOnceAfterAllWorkers ==
  NonTestBackup =>
    /\ Cardinality(StatusWriteCalls) =< 1
    /\ StatusAfterWorkers
    /\ main_pc = "returned" => Cardinality(StatusWritten) = 1
    /\ StatusWritten # {} =>
         \A i \in DOMAIN process_pool :
           (/\ process_pool[i].device_info.device_name # <<>>
            /\ \A j \in DOMAIN process_pool :
                 j # i => process_pool[j].device_info.device_name # process_pool[i].device_info.device_name)
             => Reflected(i)

\* a run returned after one worker stored its documents and the other failed,
\* and the status document shows both
C37_StatusWitness ==
  /\ NonTestBackup
  /\ main_pc = "returned"
  /\ Cardinality(StatusWritten) = 1
  /\ \E i, j \in DOMAIN process_pool :
       /\ process_pool[i].pc = "returned" /\ process_pool[j].pc = "raised"
       /\ PersistedBy(i) # {}
       /\ Reflected(i) /\ Reflected(j)
\* ------------------------------------------------------------------------
\* Properties of compare_command_outputs
\* ------------------------------------------------------------------------

\* the number of lines of a text: one more than its line breaks
LineCount(text) == Cardinality({ k \in 1..Len(text) : text[k] = NL }) + 1

\* the i-th line of a text: the words between line break i-1 and line break i
LineOf(text, i) ==
  LET breaks == { k \in 1..Len(text) : text[k] = NL }
      BreaksBefore(k) == Cardinality({ j \in breaks : j < k })
      words == { k \in 1..Len(text) : text[k] # NL /\ BreaksBefore(k) = i - 1 }
  IN [n \in 1..Cardinality(words) |->
        text[CHOOSE k \in words : Cardinality({ j \in words : j < k }) = n - 1]]

Contains(line, fragment) ==
  \E k \in 1..Len(line) :
    /\ k + Len(fragment) - 1 <= Len(line)
    /\ \A n \in 1..Len(fragment) : line[k + n - 1] = fragment[n]

Volatile(line) ==
  \/ Contains(line, <<"!Time:">>)
  \/ Contains(line, <<"no", "ip", "domain-lookup">>)
  \/ Contains(line, <<"state", "up">>)
  \/ Contains(line, <<"state", "down">>)

Compared == call.function = "compare_command_outputs" /\ ret # <<>>

\* C11: compare_command_outputs reports the outputs as the same exactly when
\* they have the same number of lines and, at every position where the two
\* lines differ, at least one of the two lines contains one of the fragments
\* '!Time:', 'no ip domain-lookup', 'state up', 'state down'; in every other
\* case it reports changed
C11_SameIffOnlyVolatileLinesDiffer ==
  Compared =>
    LET a == call.output_a
        b == call.output_b
    IN ret[1] <=>
         /\ LineCount(a) = LineCount(b)
         /\ \A i \in 1..LineCount(a) :
              LineOf(a, i) # LineOf(b, i) => Volatile(LineOf(a, i)) \/ Volatile(LineOf(b, i))

\* two outputs of two lines that differ in a volatile line only, on one side
\* only, were compared and reported as the same
C11_Witness ==
  /\ Compared
  /\ ret[1]
  /\ LineCount(call.output_a) = 2
  /\ \E i \in 1..2 :
       /\ LineOf(call.output_a, i) # LineOf(call.output_b, i)
       /\ Volatile(LineOf(call.output_a, i))
       /\ ~Volatile(LineOf(call.output_b, i))

\* ------------------------------------------------------------------------
\* Properties of db.write
\* ------------------------------------------------------------------------

Throttled == { n \in DOMAIN puts : puts[n] = "throttled" }

\* the retry rule of the storage write, at every point of a call
RetryContract ==
  \* a sleep follows every throttled attempt and nothing else, and lasts
  \* between 0.1 and 10.0 seconds
  /\ Len(sleep_times) = Cardinality(Throttled)
  /\ \A n \in DOMAIN sleep_times : sleep_times[n] >= 1 /\ sleep_times[n] <= 100
  \* only the last attempt can be one that was not throttled
  /\ \A n \in DOMAIN puts : n < Len(puts) => puts[n] = "throttled"
  /\ Len(puts) <= 15
  \* the call returns after k throttled attempts and one that stored, k < 15
  /\ ret # <<>> => puts # <<>> /\ puts[Len(puts)] = "stored"
  \* the call fails fatally, after 15 throttled attempts or at the attempt
  \* the store refused
  /\ raised # "None" =>
       \/ Len(puts) = 15 /\ Cardinality(Throttled) = 15 /\ raised = "CustomException"
       \/ puts[Len(puts)] = "refused"

\* C12: the storage write retries only on throttling errors: k throttled
\* attempts and a successful one make k+1 attempts and k sleeps, each between
\* 0.1 and 10.0 seconds, and the write succeeds; after 15 throttled attempts it
\* fails with a fatal error; on any other storage error it fails on that
\* attempt without retrying
C12_RetryOnlyOnThrottling == call.function = "write" => RetryContract

\* the same rule for the DynamoDB module alone
C12_RetryOnlyOnThrottlingDynamoDB ==
  (call.function = "write" /\ call.module = "netcat_dynamodb") => RetryContract

\* a DynamoDB write that was throttled three times and then stored
C12_DynamoDBWitness ==
  /\ call.function = "write" /\ call.module = "netcat_dynamodb"
  /\ ret # <<>>
  /\ Len(puts) = 4
  /\ Len(sleep_times) = 3

\* ------------------------------------------------------------------------
\* Properties of PACliAccess.deploy_config_snippet
\* ------------------------------------------------------------------------

\* the commands sent so far, in order
RECURSIVE CommandsOf(_)
CommandsOf(events) ==
  IF events = <<>> THEN <<>>
  ELSE IF Head(events).ev = "sendline" THEN <<Head(events).command>> \o CommandsOf(Tail(events))
  ELSE CommandsOf(Tail(events))

\* the same with every run of "show jobs processed" polls taken as one check
RECURSIVE OneCheckPerRun(_)
OneCheckPerRun(commands) ==
  IF Len(commands) < 2 THEN commands
  ELSE IF commands[1] = CMD_SHOW_JOBS /\ commands[2] = CMD_SHOW_JOBS
       THEN OneCheckPerRun(Tail(commands))
       ELSE <<commands[1]>> \o OneCheckPerRun(Tail(commands))

IsPrefix(s, t) == Len(s) <= Len(t) /\ SubSeq(t, 1, Len(s)) = s

\* a comment line: its first character that is not a space is "#"
IsComment(line) == \E k \in DOMAIN line : line[k] = "#" /\ \A j \in 1..(k - 1) : line[j] = " "

\* the lines of the snippet that are neither empty nor comments, in snippet order
RECURSIVE Commands(_)
Commands(lines) ==
  IF lines = <<>> THEN <<>>
  ELSE IF Head(lines) = <<>> \/ IsComment(Head(lines)) THEN Commands(Tail(lines))
  ELSE <<Head(lines)>> \o Commands(Tail(lines))

\* every comment of the snippet starts in the first column
CommentsStartLines ==
  \A i \in DOMAIN Split(snippet) : IsComment(Split(snippet)[i]) => Split(snippet)[i][1] = "#"

\* the steps of a deployment up to the commit
DeploymentPlan ==
  <<CMD_EMPTY, CMD_SHOW_JOBS, CMD_CONFIGURE>> \o Commands(Split(snippet)) \o <<CMD_EXIT>>
    \o (IF no_commit THEN <<>> ELSE <<CMD_SHOW_JOBS, CMD_CONFIGURE, CMD_COMMIT>>)

Deploying == pa_pc # "idle" /\ snippet # <<>>

GotBy(by) == { pa_io[k].got : k \in { n \in DOMAIN pa_io : pa_io[n].ev = "expect" /\ pa_io[n].by = by } }

SynchronizeAsked == "Please synchronize the peers" \in GotBy("send_commit_command")

NoTimeout == \A k \in DOMAIN pa_io : pa_io[k].got # "TIMEOUT"

PaEnded == pa_pc \in {"returned", "raised"}

CommitsSent == Cardinality({ k \in DOMAIN pa_io : pa_io[k].ev = "sendline" /\ pa_io[k].command = CMD_COMMIT })

\* C15: when the commit is answered by the 'synchronize the peers' question,
\* the worker answers 'n', exits config mode, sends 'request high-availability
\* sync-to-remote running-config', sleeps 120 s, re-enters config mode and
\* re-issues 'commit'; when that second commit succeeds the deployment ends
\* successfully and the device is reported successful
C15_SynchronizeThenCommitAgain ==
  (SynchronizeAsked /\ PaEnded /\ NoTimeout) =>
    /\ CommitsSent = 2
    /\ pa_exc = "None" => pa_pc = "returned"
    /\ pa_exc \in {"None", "CustomException"}

\* what the worker does do after the question: 'n', exit, the synchronization
\* request and 120 s of sleep, in this order, and nothing after them
C15_SynchronizeSteps ==
  (SynchronizeAsked /\ PaEnded /\ NoTimeout) =>
    \E q \in DOMAIN pa_io :
      /\ pa_io[q].got = "Please synchronize the peers"
      /\ CommandsOf(SubSeq(pa_io, q + 1, Len(pa_io))) = <<CMD_N, CMD_EXIT, CMD_SYNC>>
      /\ pa_io[Len(pa_io)] = Slept(120, "send_commit_command")

C15_SynchronizeWitness == SynchronizeAsked /\ PaEnded /\ NoTimeout

\* the commit was answered by the prompt and its output was examined
CommitExamined ==
  /\ command_output # <<>>
  /\ PaEnded

RevertSent == \E k \in DOMAIN pa_io : pa_io[k].ev = "sendline" /\ pa_io[k].command = CMD_REVERT

\* a line of the text contains 'error' in some letter case
HasError(line) ==
  \E k \in 1..(Len(line) - 4) :
    /\ line[k] \in {"e", "E"}
    /\ line[k + 1] \in {"r", "R"}
    /\ line[k + 2] \in {"r", "R"}
    /\ line[k + 3] \in {"o", "O"}
    /\ line[k + 4] \in {"r", "R"}

ErrorLines(text) == { i \in 1..LineCount(text) : HasError(LineOf(text, i)) }

\* C16: whenever any line of the commit output contains the substring 'error'
\* in any letter case, deploy_config_snippet sends 'revert config' and then
\* raises a commit validation fault, so the device is reported failed; when no
\* line of the commit output contains it, no revert is sent and the
\* deployment succeeds
C16_AnyErrorLineReverts ==
  CommitExamined =>
    /\ ErrorLines(command_output) # {} => RevertSent /\ pa_pc = "raised" /\ pa_exc = "CustomException"
    /\ (ErrorLines(command_output) = {} /\ NoTimeout) => ~RevertSent /\ pa_pc = "returned"

\* the same for the lines of the captured text that the scan reads: all but
\* the first three and the last two
C16_ErrorInScannedLineReverts ==
  CommitExamined =>
    LET scanned == { i \in ErrorLines(command_output) : i > 3 /\ i <= LineCount(command_output) - 2 } IN
      /\ scanned # {} => RevertSent /\ pa_pc = "raised" /\ pa_exc = "CustomException"
      /\ (scanned = {} /\ NoTimeout) => ~RevertSent /\ pa_pc = "returned"

\* a commit whose fourth line of seven reads 'x ERROR' was reverted
C16_ScannedWitness ==
  /\ CommitExamined
  /\ LineCount(command_output) = 7
  /\ ErrorLines(command_output) = {4}
  /\ RevertSent

\* the role between the brackets of the prompt, none when there are no brackets
RoleOf(tail) ==
  IF tail[1] = "(" THEN SubSeq(tail, 2, Len(tail) - 3) ELSE <<>>

\* a line is a header when it starts with '# Expected HA state: '
IsHeader(line) == Len(line) >= 21 /\ SubSeq(line, 1, 21) = HA_STATE_HEADER

\* the header text occurs in the snippet only at the start of a line
HeadersStartLines ==
  \A i \in DOMAIN Split(snippet) : Find(Split(snippet)[i], HA_STATE_HEADER) => IsHeader(Split(snippet)[i])

\* the state of the first header, without the spaces around it and in small
\* letters; 'active' when the snippet has no header
ExpectedState ==
  LET lines == Split(snippet)
      headers == { i \in DOMAIN lines : IsHeader(lines[i]) }
  IN IF headers = {} THEN <<"a", "c", "t", "i", "v", "e">>
     ELSE LET first == CHOOSE i \in headers : \A j \in headers : i <= j
              state == SubSeq(lines[first], 22, Len(lines[first]))
              Solid == { k \in DOMAIN state : state[k] # " " }
          IN IF Solid = {} THEN <<>>
             ELSE LET from == CHOOSE k \in Solid : \A j \in Solid : k <= j
                      to == CHOOSE k \in Solid : \A j \in Solid : k >= j
                  IN lower(SubSeq(state, from, to))

\* the prompt came back for the empty line of validate_ha_state
HaAnswered == GotBy("validate_ha_state") \cap {"expected_ha_state", "cli_prompt"} # {}

PositionOf(name) ==
  IF \E k \in DOMAIN up_log : up_log[k].ev = "sendline" /\ up_log[k].name = name
  THEN CHOOSE k \in DOMAIN up_log : up_log[k].ev = "sendline" /\ up_log[k].name = name
  ELSE 0

WasSent(name) == PositionOf(name) > 0

HaHealthy ==
  /\ Len(ha_states) >= 2
  /\ ha_states[1] \in {"active", "passive"}
  /\ ha_states[2] \in {"active", "passive"}

InstallFinishedOK ==
  /\ job = [state |-> "FIN", result |-> "OK"]
  /\ \E k \in DOMAIN up_log :
       up_log[k] = Command("request system software install version", requested_software_version)

\* C18: upgrade_software sends 'request restart system' only after an install
\* job for the requested version ended in state FIN with result OK and after a
\* poll of 'show high-availability all' showed both peers' State in {active,
\* passive}; when the install fails three attempts, when fewer than two HA
\* states can be read, or when the HA states stay unhealthy for 30 polls, it
\* raises a fault and no restart is sent
C18_RestartOnlyWhenInstalledAndHealthy ==
  /\ WasSent("request restart system") =>
       /\ InstallFinishedOK
       /\ HaHealthy
       /\ PositionOf("request system software install version") < PositionOf("request restart system")
       /\ PositionOf("show high-availability all") < PositionOf("request restart system")
  \* the third attempt to install failed
  /\ (WasSent("request system software install version") /\ ~WasSent("show high-availability all")
        /\ attempts_left = 0) =>
       up_pc = "raised" /\ up_exc = "CustomException"
  \* fewer than two states were read, or the thirtieth poll was unhealthy
  /\ (WasSent("show high-availability all") /\ (Len(ha_states) < 2 \/ (~HaHealthy /\ tries_left = 0))) =>
       up_pc = "raised" /\ up_exc = "CustomException" /\ ~WasSent("request restart system")

\* the restart was sent after an installation that needed a second attempt
\* and an HA poll that had to be repeated
C18_Witness ==
  /\ WasSent("request restart system")
  /\ attempts_left = 2
  /\ tries_left = 29
  /\ up_pc = "returned"

OnlyDownloads ==
  \A k \in DOMAIN up_log :
    \/ up_log[k].ev = "return" /\ up_log[k].name = "download_software"
    \/ up_log[k].ev = "log"
    \/ up_log[k].ev = "sendline" /\
         up_log[k].name \in {"request system software check",
                             "request system software download version", "show jobs id"}

DownloadReturnedAt ==
  IF \E k \in DOMAIN up_log : up_log[k] = [ev |-> "return", name |-> "download_software", version |-> <<>>]
  THEN CHOOSE k \in DOMAIN up_log : up_log[k] = [ev |-> "return", name |-> "download_software", version |-> <<>>]
  ELSE 0

\* C19: without the --upgrade flag the upgrade driver only downloads: no
\* on-device snapshot, no 'request system software install' and no 'request
\* restart system' is ever sent; with the flag, the snapshot and the install
\* are attempted on a device only after download_software returned
\* successfully for it
C19_DownloadOnlyWithoutFlag ==
  (up_pc # "idle") =>
    /\ ~upgrade => OnlyDownloads
    /\ upgrade =>
         \A name \in {"configure", "save config to", "request system software install version",
                      "request restart system"} :
           WasSent(name) => DownloadReturnedAt > 0 /\ DownloadReturnedAt < PositionOf(name)

\* a run without the flag downloaded a version and returned
C19_Witness ==
  /\ ~upgrade
  /\ up_pc = "returned"
  /\ WasSent("request system software download version")
  /\ DownloadReturnedAt > 0

\* ------------------------------------------------------------------------
\* Claims about the artifact codec
\* ------------------------------------------------------------------------

Encoded == call.function = "encode_command" /\ Len(ret) >= 2
Decoded == call.function = "encode_command" /\ Len(ret) = 3
KeyAlphabet == {"a","b","c","d","e","f","g","h","i","j","k","l","m","n","o","p"}

\* C22: decompress_device_data(compress_device_data(snapshot)) is the snapshot:
\* the same timestamp, device name and type, the same format names, the same
\* command names under each format and the same output for every command,
\* for snapshots without formats, formats without commands and empty outputs too.
C22_SnapshotRoundTrip ==
  (call.function = "compress_device_data" /\ Len(ret) = 2) => ret[2] = call.args[1]

C22_Witness ==
  /\ call.function = "compress_device_data"
  /\ Len(ret) = 2
  /\ DOMAIN call.args[1] # {}
  /\ LET formats == call.args[1].output_formats IN
     /\ DOMAIN formats = {<<"i","n","f","o">>, <<"b","a","c","k","u","p","_","s","e","t">>}
     /\ DOMAIN formats[<<"i","n","f","o">>] = {}
     /\ DOMAIN formats[<<"b","a","c","k","u","p","_","s","e","t">>] = CommandNames
     /\ formats[<<"b","a","c","k","u","p","_","s","e","t">>][<<49>>] = <<>>
     /\ formats[<<"b","a","c","k","u","p","_","s","e","t">>][<<103>>] = <<8364, 128512>>

C22_EmptyWitness ==
  /\ call.function = "compress_device_data"
  /\ Len(ret) = 2
  /\ DOMAIN call.args[1] # {}
  /\ DOMAIN call.args[1].output_formats = {}

\* C23: decode_command(encode_command(s)) is s for every string s that has a
\* UTF-8 encoding, and encode_command is injective: two distinct command
\* names never get the same storage key.  (The key is made of the sixteen
\* letters a..p.)
C23_CommandNameRoundTrip ==
  /\ Decoded => ret[3] = call.args[1]
  /\ Encoded => ((ret[1] = ret[2]) <=> (call.args[1] = call.args[2]))
  /\ Encoded => \A i \in DOMAIN ret[1] : ret[1][i] \in KeyAlphabet

C23_Witness ==
  /\ Decoded
  /\ call.args[1] = <<49, 8364>>
  /\ call.args[2] = <<103>>
  /\ ret[1] = <<"i","g","e","h","n","h","a","c">>

\* ------------------------------------------------------------------------
\* Claims about the storage adapters
\* ------------------------------------------------------------------------

Loaded == call.function = "load_latest_backup" /\ ret # <<>>
StoredOf(device_name) == {i \in DOMAIN call.contents : call.contents[i].device_name = device_name}
Newest(device_name) ==
  {i \in StoredOf(device_name) :
     \A j \in StoredOf(device_name) : call.contents[j].snapshot_timestamp =< call.contents[i].snapshot_timestamp}

LatestReturned ==
  IF StoredOf(call.device_name) = {}
  THEN ret[1] = EmptyDict
  ELSE /\ DOMAIN ret[1] # {}
       /\ ret[1].device_name = call.device_name
       /\ \E i \in Newest(call.device_name) :
            /\ ret[1].snapshot_timestamp = call.contents[i].snapshot_timestamp
            /\ ret[1].device_type = call.contents[i].device_type
            /\ DOMAIN ret[1].output_formats = DOMAIN call.contents[i].output_formats
            /\ \A f \in DOMAIN ret[1].output_formats :
                 /\ DOMAIN call.contents[i].output_formats[f] = {[hex |-> c] : c \in DOMAIN ret[1].output_formats[f]}
                 /\ \A c \in DOMAIN ret[1].output_formats[f] :
                      call.contents[i].output_formats[f][[hex |-> c]] = [bz2 |-> ret[1].output_formats[f][c]]

\* C24: for every storage backend, load_latest_backup(device_name) returns the
\* decompressed backup document of that device with the greatest
\* snapshot_timestamp among those in the backup table, and the empty snapshot
\* exactly when the table holds no backup of that device.
C24_LoadLatestEveryBackend == Loaded => LatestReturned

\* C24, for the backends that query the table: DynamoDB and MongoDB
C24_LoadLatestQueried == (Loaded /\ call.backend # "FsDB") => LatestReturned

C24_QueriedWitness ==
  /\ Loaded
  /\ call.backend = "DynamoDB"
  /\ Cardinality(StoredOf(call.device_name)) = 2
  /\ call.contents[1].snapshot_timestamp = 2
  /\ ret[1].snapshot_timestamp = 2

Created == call.function = "create_tables" /\ ret # <<>>
TablesBefore(k) == IF k = 1 THEN call.tables ELSE ret[k - 1]

\* C25: for each storage backend, create_tables called N >= 1 times on a store
\* where any subset of the tables exists leaves exactly the three declared
\* tables status, info and backup, and a call made when all three exist
\* changes nothing.
C25_CreateTablesIdempotent ==
  Created => \A k \in DOMAIN ret : ret[k] = Tables

\* C25, for DynamoDB and FsDB; and for every backend, a call on a store that
\* has all three tables changes nothing and no call removes a table
C25_CreateTablesDynamoDBFsDB ==
  Created =>
    /\ call.backend # "MongoDB" => \A k \in DOMAIN ret : ret[k] = Tables
    /\ \A k \in DOMAIN ret : TablesBefore(k) = Tables => ret[k] = Tables
    /\ \A k \in DOMAIN ret : TablesBefore(k) \subseteq ret[k]

C25_DynamoDBWitness ==
  /\ Created
  /\ call.backend = "DynamoDB"
  /\ call.tables = {DBT_INFO}
  /\ Len(ret) = MaxCalls

\* ------------------------------------------------------------------------
\* Claims about the deployment on a Cisco device
\* ------------------------------------------------------------------------

CdEnded == cd_pc \in {"returned", "raised"}
CdSentLines == {i \in DOMAIN cd_io : cd_io[i].ev = "sendline"}
CdSnapshotTaken ==
  \E i \in DOMAIN cd_io :
    /\ cd_io[i].ev = "sendline" /\ cd_io[i].command = CMD_COPY_FLASH
    /\ cd_io[i + 1].got = "cli_prompt"
CdSent(line) == \E i \in CdSentLines : cd_io[i].command = line

\* C28: in a deploy job on a cisco_router or cisco_switch device, after the
\* on-device snapshot the worker enters config mode, sends the snippet lines
\* that are neither blank nor comments, leaves config mode and sends
\* "copy running-config startup-config", and the device is reported successful.
C28_CiscoDeploymentAfterSnapshot ==
  (CdEnded /\ CdSnapshotTaken) =>
    /\ cd_pc = "returned"
    /\ cd_exc = "None"
    /\ CdSent(<<"configure terminal">>)
    /\ CdSent(<<"copy running-config startup-config", "\r\r\r\r\r">>)

\* C28, as the code has it: after the snapshot nothing more is sent and the
\* deployment ends with a TypeError
C28_CiscoDeploymentStopsAfterSnapshot ==
  (CdEnded /\ CdSnapshotTaken) =>
    /\ cd_pc = "raised"
    /\ cd_exc = "TypeError"
    /\ cd_io[Len(cd_io) - 1].command = CMD_COPY_FLASH

C28_SnapshotWitness ==
  /\ CdEnded
  /\ CdSnapshotTaken
  /\ deploy_args.device_type = T_cisco_router
  /\ deploy_args.site_id_check
  /\ Len(cd_io) = 4

\* ------------------------------------------------------------------------
\* Claims about clear_commit_in_progress
\* ------------------------------------------------------------------------

ByClear(k) == pa_io[k].by = "clear_commit_in_progress"
\* where the call that made event k began
RECURSIVE ClearStart(_)
ClearStart(k) == IF k = 1 \/ ~ByClear(k - 1) THEN k ELSE ClearStart(k - 1)
\* the polls of that call up to event k, and those that showed an active commit
PollsUpTo(k) == {m \in ClearStart(k)..k : pa_io[m].ev = "sendline"}
ActiveUpTo(k) == {m \in ClearStart(k)..k : pa_io[m].ev = "find_regex_sl" /\ pa_io[m].got = "Commit ACT"}
InClearCommit == pa_pc \in {"clear_commit_in_progress_1", "clear_commit_in_progress_2"}
Busy == pa_pc = "raised" /\ pa_exc = "CustomException"

ClearCommitPolling ==
  \A k \in DOMAIN pa_io :
    ByClear(k) =>
      /\ pa_io[k].ev = "sendline"
           => /\ pa_io[k].command = CMD_SHOW_JOBS
              /\ Cardinality(PollsUpTo(k)) =< 6
      /\ pa_io[k].ev = "find_regex_sl" /\ pa_io[k].got = "Commit ACT"
           => pa_io[k + 1] = Slept(30, "clear_commit_in_progress")
      /\ pa_io[k].ev = "find_regex_sl" /\ pa_io[k].got = ""
           => /\ k < Len(pa_io) => ~ByClear(k + 1)
              /\ k = Len(pa_io) => ~InClearCommit /\ pa_pc # "raised"
      /\ pa_io[k].ev = "sleep"
           => /\ pa_io[k].seconds = 30
              /\ pa_io[k - 1] = Found("Commit ACT", "clear_commit_in_progress")
              /\ LET active == Cardinality(ActiveUpTo(k)) IN
                   /\ active = Cardinality(PollsUpTo(k))
                   /\ IF active = 6
                      THEN k = Len(pa_io) /\ Busy
                      ELSE ~(k = Len(pa_io) /\ pa_pc = "raised")

\* C30: clear_commit_in_progress polls "show jobs processed" at most 6 times,
\* sleeps 30 seconds after every poll that shows an active Commit job, returns
\* at the first poll that shows none, raises exactly when all 6 polls showed an
\* active commit, and every call of it ends.
C30_ClearCommitTerminates ==
  /\ []ClearCommitPolling
  /\ (pa_pc = "clear_commit_in_progress_1") ~> (pa_pc # "clear_commit_in_progress_1")
  /\ (pa_pc = "clear_commit_in_progress_2") ~> (pa_pc # "clear_commit_in_progress_2")

\* the second call of a deployment waited through six polls and gave up
C30_Witness ==
  /\ Busy
  /\ pa_io[Len(pa_io)] = Slept(30, "clear_commit_in_progress")
  /\ Cardinality(ActiveUpTo(Len(pa_io))) = 6
  /\ \E k \in DOMAIN pa_io : pa_io[k].ev = "sendline" /\ pa_io[k].command = CMD_EXIT

\* ------------------------------------------------------------------------
\* Claims about download_software
\* ------------------------------------------------------------------------

IsDownloadRequest(e) == e.ev = "sendline" /\ e.name = "request system software download version"
\* the versions a download was requested for, in the order of their first request
DownloadRequests == SelectSeq(up_log, IsDownloadRequest)
\* how many of its three numbers a version of the chain fixes
Rank(version) == IF version[2] = "0" /\ version[3] = "0" THEN 0 ELSE IF version[3] = "0" THEN 1 ELSE 2
ChainMembers ==
  LET v == requested_software_version IN
    {<<v[1], "0", "0">>} \cup (IF v[2] # "0" THEN {<<v[1], v[2], "0">>} ELSE {})
                         \cup (IF v[3] # "0" THEN {v} ELSE {})
IsChain(deps) ==
  /\ { deps[i] : i \in DOMAIN deps } = ChainMembers
  /\ \A i, j \in DOMAIN deps : i < j => Rank(deps[i]) < Rank(deps[j])
  /\ deps[Len(deps)] = requested_software_version

\* C31: for a requested version MAJOR.MINOR.PATCH the dependencies are the
\* chain MAJOR.0.0, MAJOR.MINOR.0 (MINOR not 0), MAJOR.MINOR.PATCH (PATCH not
\* 0), in that order, without duplicates, ending with the requested version;
\* download_software requests downloads only for members of the chain, in the
\* order of the chain, and never for a member the software check listed as
\* downloaded
C31_DownloadsFollowChain ==
  /\ IsChain(software_version_dependencies(requested_software_version))
  /\ \A k \in DOMAIN DownloadRequests :
       /\ DownloadRequests[k].version \in ChainMembers
       /\ DownloadRequests[k].version \notin available
       /\ \A m \in DOMAIN DownloadRequests :
            k < m => Rank(DownloadRequests[k].version) < Rank(DownloadRequests[m].version)

\* for 9.1.3 with 9.1.0 already downloaded, 9.0.0 and then 9.1.3 were
\* requested and download_software returned
C31_Witness ==
  /\ requested_software_version = <<"9", "1", "3">>
  /\ available = {<<"9", "1", "0">>}
  /\ Len(DownloadRequests) = 2
  /\ DownloadRequests[1].version = <<"9", "0", "0">>
  /\ DownloadRequests[2].version = <<"9", "1", "3">>
  /\ DownloadReturnedAt > 0

IsAttempt(e, version) ==
  e.ev = "log" /\ e.version = version
    /\ e.name \in {"attempt 1", "attempt 2", "attempt 3", "attempt 4 or later"}
\* the attempts made to download a version, as positions in the log
AttemptsOf(version) == {k \in DOMAIN up_log : IsAttempt(up_log[k], version)}
\* an attempt to download the version ended with its job FIN and OK
Completed(version) ==
  \E k \in DOMAIN up_log :
    /\ up_log[k] = [ev |-> "log", name |-> "completed", version |-> version]
    /\ \E a \in AttemptsOf(version) : a < k
AllAttemptsFailed(version) ==
  /\ Cardinality(AttemptsOf(version)) = 3
  /\ ~Completed(version)
  /\ attempts_left = 0

\* C32: download_software returns only when every member of the chain was
\* already downloaded or had one of at most three attempts end with its job
\* FIN and OK; a member whose three attempts all failed raises a fault; and
\* a download is requested for a member only when every earlier member was
\* already downloaded or completed
C32_DownloadSucceedsOnlyOnFinOk ==
  /\ \A v \in ChainMembers :
       /\ Cardinality(AttemptsOf(v)) =< 3
       /\ \A k \in AttemptsOf(v) : up_log[k].name # "attempt 4 or later"
       /\ DownloadReturnedAt > 0 => v \in available \/ Completed(v)
       /\ AllAttemptsFailed(v) =>
            /\ up_pc = "raised" /\ up_exc = "CustomException"
            /\ DownloadReturnedAt = 0
  /\ \A k \in DOMAIN DownloadRequests :
       \A v \in ChainMembers :
         Rank(v) < Rank(DownloadRequests[k].version) => v \in available \/ Completed(v)

\* 9.1.3 was downloaded: 9.0.0 was there, 9.1.0 needed three attempts, 9.1.3 one
C32_Witness ==
  /\ requested_software_version = <<"9", "1", "3">>
  /\ available = {<<"9", "0", "0">>}
  /\ Cardinality(AttemptsOf(<<"9", "1", "0">>)) = 3
  /\ Cardinality(AttemptsOf(<<"9", "1", "3">>)) = 1
  /\ Completed(<<"9", "1", "0">>) /\ Completed(<<"9", "1", "3">>)
  /\ DownloadReturnedAt > 0

\* the three attempts to download 9.1.0 failed and 9.1.3 was never requested
C32_FailedWitness ==
  /\ requested_software_version = <<"9", "1", "3">>
  /\ AllAttemptsFailed(<<"9", "1", "0">>)
  /\ up_pc = "raised"

\* ------------------------------------------------------------------------
\* Claims about the documents of save_device_data
\* ------------------------------------------------------------------------

Saved == call.function = "save_device_data" /\ ret # <<>>
\* the formats of the document written to a table, {} when none was written
WrittenTo(table_name) ==
  UNION { DOMAIN ret[1][k].document.output_formats : k \in {k \in DOMAIN ret[1] : ret[1][k].table_name = table_name} }
BackupFormats == {f \in DOMAIN call.device_data.output_formats : StartsWith(f, <<"b", "a", "c", "k", "u", "p">>)}
OtherFormats == DOMAIN call.device_data.output_formats \ BackupFormats
TablesWritten == { ret[1][k].table_name : k \in DOMAIN ret[1] }

\* C35: the document written to the backup table holds exactly the snapshot's
\* formats whose name starts with 'backup', the document written to the info
\* table exactly all the others, each with the snapshot's captures; so every
\* format of every adapter's catalog is in one of the two documents, none in
\* both, none dropped
C35_DocumentsPartitionFormats ==
  Saved =>
    /\ DBT_INFO \in TablesWritten
    /\ WrittenTo(DBT_INFO) = OtherFormats
    /\ DBT_BACKUP \in TablesWritten =>
         /\ WrittenTo(DBT_BACKUP) = BackupFormats
         /\ WrittenTo(DBT_BACKUP) \cup WrittenTo(DBT_INFO) = DOMAIN call.device_data.output_formats
         /\ WrittenTo(DBT_BACKUP) \cap WrittenTo(DBT_INFO) = {}
    /\ \A k \in DOMAIN ret[1] :
         \A f \in DOMAIN ret[1][k].document.output_formats :
           ret[1][k].document.output_formats[f] = call.device_data.output_formats[f]

\* both documents of a cisco_asa_mc were written: six backup formats, three others
C35_Witness ==
  /\ Saved
  /\ call.device_data.device_type = T_cisco_asa_mc
  /\ Cardinality(WrittenTo(DBT_BACKUP)) = 6
  /\ Cardinality(WrittenTo(DBT_INFO)) = 3

\* ------------------------------------------------------------------------
\* Claims about the CLI prompt patterns
\* ------------------------------------------------------------------------

Expected_ == call.function = "expect" /\ ret # <<>>
OwnPrompt == call.of = call.device_name
\* the capitals of the name shown hold a text the session's own name matches
NameOccurs ==
  \E i \in 1..(Len(call.of) + 1) :
    Ends(Interpolated(upper(call.device_name)), upper(call.of), {i}) # {}

\* C36: every adapter's prompt pattern matches a prompt of the session's own
\* device name in capitals, with or without a configuration-mode suffix, and
\* matches no prompt that carries another device name, for each of the seven
\* device types
C36_PromptMatchesOwnNameOnly ==
  Expected_ => (ret[1] <=> OwnPrompt)

\* C36, in what holds: for every type but cisco_asa_mc the pattern matches the
\* prompt of the session's own name, with and without the suffix, and a
\* prompt of another name is matched only when that name holds a text the
\* own name matches
C36_PromptMatchesOwnName ==
  (Expected_ /\ call.device_type # T_cisco_asa_mc) =>
    /\ OwnPrompt => ret[1]
    /\ ret[1] => NameOccurs

\* the pattern of a cisco_router named r1 matched "R1(config)#"
C36_OwnNameWitness ==
  /\ Expected_
  /\ call.device_type = T_cisco_router /\ OwnPrompt /\ ret[1]
  /\ call.text = <<"R", "1", "(", "c", "o", "n", "f", "i", "g", ")", "#">>

\* ------------------------------------------------------------------------
\* Claims about the steps of a deployment before the snippet
\* ------------------------------------------------------------------------

\* what was sent to the device and expected from it, in order: the session is
\* handed to cli.deploy_config_snippet after the preliminaries
DeviceLog == cd_io \o pa_io
SnippetLineAt(k) == DeviceLog[k].ev = "sendline" /\ DeviceLog[k].by = "deploy_config_snippet"
CommitAt(k) == DeviceLog[k].ev = "sendline" /\ DeviceLog[k].command = CMD_COMMIT
\* the prompt came after the last command of create_config_snapshot
SnapshotDoneAt(k) ==
  /\ k > 1
  /\ DeviceLog[k].ev = "expect" /\ DeviceLog[k].by = "create_config_snapshot"
  /\ DeviceLog[k].got = "cli_prompt"
  /\ DeviceLog[k - 1].command \in {CMD_EXIT, CMD_COPY_FLASH}
\* get_site_id, get_inet_gw or create_config_snapshot raised
PreliminaryFailed == cd_pc = "raised" /\ cd_exc \in {"CustomException", "TIMEOUT"}

\* C38: in a deploy job the on-device configuration snapshot is completed
\* before the first snippet line is sent to the device, and when the snapshot,
\* the site id query or the internet gateway query fails, no snippet line and
\* no commit is sent to the device.
C38_SnapshotBeforeSnippet ==
  /\ \A k \in DOMAIN DeviceLog :
       SnippetLineAt(k) => \E j \in 1..(k - 1) : SnapshotDoneAt(j)
  /\ PreliminaryFailed =>
       \A k \in DOMAIN DeviceLog : ~SnippetLineAt(k) /\ ~CommitAt(k)

\* a Palo Alto device that told its site id and gateway took the snapshot and
\* then got a snippet line with both of them
C38_Witness ==
  /\ deploy_args.device_type = T_paloalto
  /\ deploy_args.site_id_check /\ deploy_args.inet_gw_check
  /\ \E k \in DOMAIN DeviceLog :
       /\ SnippetLineAt(k)
       /\ DeviceLog[k].command = <<"s", "e", "t", " ", "i", "d", " ", "1", "2">>
       /\ \E j \in 1..(k - 1) : SnapshotDoneAt(j)
  /\ \E k \in DOMAIN DeviceLog :
       /\ SnippetLineAt(k)
       /\ DeviceLog[k].command = <<"s", "e", "t", " ", "g", "w", " ", "1", "0", ".", "0", ".", "0", ".", "1", " ", "S", "I", "T", "E", "1">>

\* a failed snapshot ended the deployment
C38_FailedWitness ==
  /\ PreliminaryFailed
  /\ cd_exc = "TIMEOUT"
  /\ Len(cd_io) > 2

\* ------------------------------------------------------------------------
\* Claims about the loops of download_software and upgrade_software
\* ------------------------------------------------------------------------

UpgradeEnded == up_pc \in {"returned", "raised"}
\* the while loop on "show jobs id" is running and the job is not over
JobStaysBusy == up_pc \in {"download_job", "install_job"} /\ job.state \in {"ACT", "QUEUED"}
\* the passes the for loops have left, where their bodies run
LoopsWithinRange ==
  /\ up_pc \in {"download_request", "download_job", "install_request", "install_job"} =>
       attempts_left \in 1..Attempts
  /\ up_pc \in {"download_request", "install_request", "show_high_availability"} =>
       tries_left \in 1..Tries
\* a pass of the while loop that goes round uses up no pass of a for loop
PollUsesNoPass ==
  (up_pc \in {"download_job", "install_job"} /\ up_pc' = up_pc) =>
    UNCHANGED <<attempts_left, tries_left, dependency>>

\* C39: download_software and upgrade_software return or raise on every
\* execution in which each enqueued job eventually leaves the states ACT and
\* QUEUED: an execution that does not end polls a job that stays ACT or QUEUED
\* for ever.  Every other loop is bounded, 3 attempts per version, 30 requests
\* per attempt and 30 HA polls, and the polling loop uses up none of them.
C39_TerminatesWhenJobsFinish ==
  /\ []LoopsWithinRange
  /\ [][PollUsesNoPass]_vars
  /\ (<>UpgradeEnded) \/ (<>[]JobStaysBusy)

\* the last HA poll of the thirty, after an install job that was seen active
C39_Witness ==
  /\ up_pc = "show_high_availability"
  /\ tries_left = 1
  /\ \E k \in DOMAIN up_log : up_log[k].name = "show jobs id"
  /\ \E k \in DOMAIN up_log : up_log[k].name = "request system software install version"

\* ------------------------------------------------------------------------
\* Claims about what detect_config_change compares
\* ------------------------------------------------------------------------

DetectReturned == call.function = "detect_config_change" /\ ret # <<>>
CurrentFormats == call.device_data.output_formats
PreviousFormats == Get(call.latest, "output_formats", EmptyDict)
CurrentBackupFormats == { f \in DOMAIN CurrentFormats : StartsWith(f, <<"b","a","c","k","u","p">>) }
\* the latest backup holds no capture of this command in this format
AbsentBefore(f, c) == f \notin DOMAIN PreviousFormats \/ c \notin DOMAIN PreviousFormats[f]
\* a captured command of a backup format that the latest backup lacks
NewCapture == \E f \in CurrentBackupFormats : \E c \in DOMAIN CurrentFormats[f] : AbsentBefore(f, c)
\* a captured command of a backup format that differs from its stored capture
DifferingCapture ==
  \E f \in CurrentBackupFormats : \E c \in DOMAIN CurrentFormats[f] :
    ~AbsentBefore(f, c) /\ ~compare_command_outputs(CurrentFormats[f][c], PreviousFormats[f][c])

\* C40: when a prior backup exists, a command captured in a backup format of
\* the current snapshot that the prior backup lacks, alone or with its whole
\* format, always makes detect_config_change return changed; what only the
\* prior backup holds never does: changed is returned only for a capture of the
\* current snapshot that is new or differs.
C40_NewCaptureIsAChange ==
  (DetectReturned /\ DOMAIN PreviousFormats # {}) =>
    /\ NewCapture => ret[1]
    /\ ret[1] = (NewCapture \/ DifferingCapture)

\* the snapshot has a command with an empty capture that the prior backup
\* lacks, the prior backup a format the snapshot lacks; changed was returned
C40_Witness ==
  /\ DetectReturned
  /\ F_backup_startup \in DOMAIN PreviousFormats
  /\ F_backup_startup \notin DOMAIN CurrentFormats
  /\ DOMAIN CurrentFormats = {F_backup_running}
  /\ F_backup_running \in DOMAIN PreviousFormats
  /\ DOMAIN CurrentFormats[F_backup_running] = {"show a", "show b"}
  /\ DOMAIN PreviousFormats[F_backup_running] = {"show a"}
  /\ CurrentFormats[F_backup_running]["show b"] = <<NL>>
  /\ CurrentFormats[F_backup_running]["show a"] = PreviousFormats[F_backup_running]["show a"]
  /\ ret[1]

\* the prior backup holds more than the snapshot, and no change was returned
C40_PriorOnlyWitness ==
  /\ DetectReturned
  /\ DOMAIN CurrentFormats = {F_backup_running, F_info}
  /\ DOMAIN PreviousFormats = {F_backup_running, F_backup_startup}
  /\ DOMAIN CurrentFormats[F_backup_running] = {"show a"}
  /\ DOMAIN PreviousFormats[F_backup_running] = {"show a", "show b"}
  /\ ~ret[1]
====
